---- MODULE Spec2Model ----
(***************************************************************************)
(* Wallet RPC handlers of src/wallet/rpcwallet.cpp that mutate or build    *)
(* transactions: bumpfee, sweepprivkeys, fundrawtransaction, lockunspent,  *)
(* settxfee.  Amounts are satoshis, fee rates are satoshis per 1000 bytes, *)
(* output indexes are 0-based as in the C++ (vout[n] is vout[n + 1] here). *)
(***************************************************************************)
EXTENDS Integers, Sequences, FiniteSets, TLC

VARIABLES
    mapWallet,       \* CWallet::mapWallet: txid -> CWalletTx (vin, vout, mapValue, depth)
    mempoolTx,       \* the pending pool: the transactions accepted by it
    setLockedCoins,  \* CWallet::setLockedCoins: the locked outpoints
    payTxFee,        \* the global payTxFee rate (settxfee)
    minRelayTxFee,   \* the global ::minRelayTxFee rate (start-up configuration)
    mapAddressBook,  \* the labelled receive keys
    keyPool,         \* the keys left in the key pool
    mapKeys,         \* CWallet's key store (mapKeys): the private keys the wallet holds
    running,         \* FALSE once the process has aborted (assert, crash)
    ret,             \* the last call: its name, arguments and what it returned
    cs_main,         \* the chain-state lock: the RPC thread that owns it, 0 when free
    cs_wallet,       \* CWallet::cs_wallet: the RPC thread that owns it, 0 when free
    mempool_cs,      \* mempool.cs: the RPC thread that owns it, 0 when free
    pc               \* RPC thread -> the call it is in and its position in it

walletVars == <<mapWallet, mempoolTx, setLockedCoins, payTxFee, minRelayTxFee,
                mapAddressBook, keyPool, mapKeys, running, ret>>

\* The keys of the wallet at start-up: its own, and one that is also swept.
WalletKeys == {"w1", "w2", "k3"}

\* A call taken as one step acquires and releases its locks within the step.
lockVars == <<cs_main, cs_wallet, mempool_cs, pc>>

vars == <<walletVars, lockVars>>

(***************************************************************************)
(* Bounds of the model.                                                    *)
(***************************************************************************)
MaxWalletTx == 4
MaxAddedInputs == 2
NumThreads == 2
MaxReplacements == 2
MaxPasses == 4

Threads == 1..NumThreads
Idle == [op |-> "idle", i |-> 0]

(***************************************************************************)
(* Program constants.                                                      *)
(***************************************************************************)
maxTxFee == 50000
fallbackFee == 20000
\* CTxIn::SEQUENCE_FINAL is 0xffffffff; the model keeps sequence numbers in 31 bits.
SEQUENCE_FINAL == 2147483647

RECURSIVE SumSeq(_)
SumSeq(s) == IF s = <<>> THEN 0 ELSE Head(s) + SumSeq(Tail(s))

Max(a, b) == IF a >= b THEN a ELSE b

Values(vout) == [i \in 1..Len(vout) |-> vout[i].nValue]

(***************************************************************************)
(* CFeeRate: a rate is satoshis per 1000 bytes; both conversions truncate. *)
(***************************************************************************)
CFeeRate(nFeePaid, nSize) == IF nSize > 0 THEN (nFeePaid * 1000) \div nSize ELSE 0

\* A positive rate charges at least one satoshi for a size that is not zero.
GetFee(nSatoshisPerK, nSize) ==
    LET nFee == (nSatoshisPerK * nSize) \div 1000
    IN  IF nFee = 0 /\ nSize # 0 /\ nSatoshisPerK > 0 THEN 1 ELSE nFee

(***************************************************************************)
(* Scripts.  "payee" and "data" pay somebody else ("data" is a long        *)
(* script), "change" pays a wallet key that is not in the address book,    *)
(* "recv" a wallet key that is.                                            *)
(***************************************************************************)
ScriptSize(script) == IF script = "data" THEN 1299 ELSE 25

TxOutSize(txout) == 9 + ScriptSize(txout.scriptPubKey)

GetVirtualTransactionSize(tx) ==
    10 + 148 * Len(tx.vin) + SumSeq([i \in 1..Len(tx.vout) |-> TxOutSize(tx.vout[i])])

GetDustThreshold(txout, rate) == 3 * GetFee(rate, TxOutSize(txout) + 148)

IsDust(txout, rate) == txout.nValue < GetDustThreshold(txout, rate)

IsChange(txout) == txout.scriptPubKey = "change"

IsMineScript(script) == script \in {"change", "recv"}

(***************************************************************************)
(* Transactions.  A scriptSig is <<>> (unsigned) or <<vout>>: a signature  *)
(* with SIGHASH_ALL, which commits to the outputs it was made over.        *)
(***************************************************************************)
TxIn(hash, n, nSequence, scriptSig) ==
    [prevout |-> [hash |-> hash, n |-> n], nSequence |-> nSequence, scriptSig |-> scriptSig]

TxOut(nValue, script) == [nValue |-> nValue, scriptPubKey |-> script]

TxOf(wtx) == [vin |-> wtx.vin, vout |-> wtx.vout]

Prevouts(tx) == [i \in 1..Len(tx.vin) |-> tx.vin[i].prevout]

SequenceNumbers(tx) == [i \in 1..Len(tx.vin) |-> tx.vin[i].nSequence]

\* The previous output of an input, as the wallet knows it: mapWallet.find(prevout.hash)
\* and prevout.n < vout.size().
PrevoutKnown(wallet, prevout) ==
    /\ prevout.hash \in DOMAIN wallet
    /\ prevout.n < Len(wallet[prevout.hash].vout)

PrevoutValue(wallet, prevout) == wallet[prevout.hash].vout[prevout.n + 1].nValue

PrevoutIsMine(wallet, prevout) ==
    /\ PrevoutKnown(wallet, prevout)
    /\ IsMineScript(wallet[prevout.hash].vout[prevout.n + 1].scriptPubKey)

GetDebit(wallet, tx) ==
    SumSeq([i \in 1..Len(tx.vin) |->
              IF PrevoutIsMine(wallet, tx.vin[i].prevout)
              THEN PrevoutValue(wallet, tx.vin[i].prevout) ELSE 0])

GetValueOut(tx) == SumSeq(Values(tx.vout))

IsAllFromMe(wallet, tx) == \A i \in 1..Len(tx.vin) : PrevoutIsMine(wallet, tx.vin[i].prevout)

SignalsOptInRBF(tx) == \E i \in 1..Len(tx.vin) : tx.vin[i].nSequence < SEQUENCE_FINAL - 1

HasWalletSpend(wallet, hash) ==
    \E h \in DOMAIN wallet : \E i \in 1..Len(wallet[h].vin) : wallet[h].vin[i].prevout.hash = hash

\* GetHash: equal transactions have equal ids, a new transaction gets a new id.
GetHash(wallet, tx) ==
    IF \E h \in DOMAIN wallet : TxOf(wallet[h]) = tx
    THEN CHOOSE h \in DOMAIN wallet : TxOf(wallet[h]) = tx
    ELSE Cardinality(DOMAIN wallet) + 1

RemoveAt(seq, i) == [j \in 1..(Len(seq) - 1) |-> IF j < i THEN seq[j] ELSE seq[j + 1]]

(***************************************************************************)
(* Wallet services used by bumpfee.                                        *)
(***************************************************************************)
\* CWallet::CommitTransaction: the record is added under its id (an id already in the
\* map keeps its record) and the pool takes the transaction, evicting what it conflicts with.
WalletAfterCommit(wallet, txid, wtxNew) ==
    IF txid \in DOMAIN wallet THEN wallet ELSE wallet @@ (txid :> wtxNew)

Conflicts(tx1, tx2) ==
    \E i \in 1..Len(tx1.vin) : \E j \in 1..Len(tx2.vin) : tx1.vin[i].prevout = tx2.vin[j].prevout

PoolAfterAccept(pool, tx) == {m \in pool : ~Conflicts(m, tx)} \cup {tx}

\* CWallet::MarkReplaced
MarkReplaced(wallet, originalHash, newHash) ==
    [wallet EXCEPT ![originalHash].mapValue =
        ("replaced_by_txid" :> newHash) @@ wallet[originalHash].mapValue]

MempoolHasDescendants_never(pool, wallet, hash) == FALSE

MempoolHasDescendants(pool, wallet, hash) ==
    /\ TxOf(wallet[hash]) \in pool
    /\ \E m \in pool : \E i \in 1..Len(m.vin) : m.vin[i].prevout.hash = hash

(***************************************************************************)
(* bumpfee.  p holds the call's parameters and the answers of the services *)
(* it calls: hasOutput/nOutput (the legacy second parameter), hasTotalFee/ *)
(* totalFee, est (estimateSmartFee), minMempoolFee (mempool.GetMinFee),    *)
(* signOk (ProduceSignature), commitOk (CommitTransaction), markOk         *)
(* (MarkReplaced), and ub: what the build makes of the read of             *)
(* vout[vout.size()] that the bounds check of the parameter lets through.  *)
(***************************************************************************)
NoTx == [vin |-> <<>>, vout |-> <<>>]

NoBump ==
    [err |-> "", crash |-> FALSE, txid |-> 0, tx |-> NoTx,
     nOldFee |-> 0, nNewFee |-> 0, nOldFeeRate |-> 0, nNewFeeRate |-> 0, nDelta |-> 0,
     maxNewTxSize |-> 0, nOutput |-> -1, discarded |-> FALSE, signed |-> FALSE,
     submitted |-> FALSE, committed |-> FALSE, marked |-> FALSE]

\* An error return carries the message only; what the call had done by then is kept.
BumpError(f, msg) ==
    [NoBump EXCEPT !.err = msg, !.signed = f.signed, !.submitted = f.submitted,
                   !.committed = f.committed, !.tx = f.tx, !.txid = f.txid]

\* The process aborts: nothing is returned, the computed amounts are kept for the record.
BumpCrash(f, msg) == [f EXCEPT !.err = msg, !.crash = TRUE]

\* commit/broadcast the tx, mark the original tx as bumped
bumpfee_commit(hash, p, f, tx) ==
    LET g == [f EXCEPT !.tx = tx, !.signed = TRUE, !.submitted = TRUE]
    IN  IF ~p.commitOk \/ tx \in mempoolTx
        THEN BumpError(g, "Error: The transaction was rejected!")
        ELSE LET h == [g EXCEPT !.committed = TRUE, !.txid = GetHash(mapWallet, tx)]
             IN  IF ~p.markOk
                 THEN BumpError(h, "Unable to mark the original transaction as replaced.")
                 ELSE [h EXCEPT !.marked = TRUE]

\* sign the new tx: every input whose previous output the wallet knows
SignedVin(wallet, tx) ==
    [i \in 1..Len(tx.vin) |->
        IF PrevoutKnown(wallet, tx.vin[i].prevout)
        THEN [tx.vin[i] EXCEPT !.scriptSig = <<tx.vout>>]
        ELSE tx.vin[i]]

bumpfee_sign(hash, p, f, tx) ==
    IF (\E i \in 1..Len(tx.vin) : PrevoutKnown(mapWallet, tx.vin[i].prevout)) /\ ~p.signOk
    THEN BumpError(f, "Can't sign transaction.")
    ELSE bumpfee_commit(hash, p, f, [tx EXCEPT !.vin = SignedVin(mapWallet, tx)])

\* If the output would become dust, discard it (converting the dust to fee)
DiscardsOutput(nValue, nDustThreshold) == nValue <= nDustThreshold

ReducedVout_firstOutput(vout, nOutput, nDelta) ==
    [vout EXCEPT ![1].nValue = vout[1].nValue - nDelta]

ReducedVout(vout, nOutput, nDelta) ==
    [vout EXCEPT ![nOutput + 1].nValue = vout[nOutput + 1].nValue - nDelta]

ChangeTooSmall_never(nValue, nDelta) == FALSE

\* If the output is not large enough to pay the fee, fail.
ChangeTooSmall(nValue, nDelta) == nValue < nDelta

\* Now modify the output to increase the fee.
bumpfee_modify(hash, p, f) ==
    LET wtx == mapWallet[hash]
        nDelta == f.nNewFee - f.nOldFee
        g == [f EXCEPT !.nDelta = nDelta]
    IN  IF ~(nDelta > 0)
        THEN BumpCrash(g, "assert(nDelta > 0)")
        ELSE IF f.nOutput >= Len(wtx.vout)
        THEN \* poutput points past the end of tx.vout
             IF ChangeTooSmall(p.ub.nValue, nDelta)
             THEN BumpError(g, "Change output is too small to bump the fee")
             ELSE IF p.ub.discard
             THEN bumpfee_sign(hash, p,
                      [g EXCEPT !.nNewFee = f.nNewFee + (p.ub.nValue - nDelta)],
                      [vin |-> wtx.vin,
                       vout |-> IF p.ub.eraseLast
                                THEN SubSeq(wtx.vout, 1, Len(wtx.vout) - 1)
                                ELSE wtx.vout])
             ELSE bumpfee_sign(hash, p, g, TxOf(wtx))
        ELSE LET poutput == wtx.vout[f.nOutput + 1]
                 reduced == ReducedVout(wtx.vout, f.nOutput, nDelta)
             IN  IF ChangeTooSmall(poutput.nValue, nDelta)
                 THEN BumpError(g, "Change output is too small to bump the fee")
                 ELSE IF DiscardsOutput(reduced[f.nOutput + 1].nValue,
                                        GetDustThreshold(poutput, minRelayTxFee))
                 THEN bumpfee_sign(hash, p,
                          [g EXCEPT !.nNewFee = f.nNewFee + reduced[f.nOutput + 1].nValue,
                                    !.discarded = TRUE],
                          [vin |-> wtx.vin, vout |-> RemoveAt(reduced, f.nOutput + 1)])
                 ELSE bumpfee_sign(hash, p, g, [vin |-> wtx.vin, vout |-> reduced])

\* totalFee must be at least oldFee + relayFee, both taken on the padded size
minTotalFee(nOldFeeRate, maxNewTxSize) ==
    GetFee(nOldFeeRate, maxNewTxSize) + GetFee(minRelayTxFee, maxNewTxSize)

TotalFeeTooLow_orEqual(totalFee, nOldFeeRate, maxNewTxSize) ==
    totalFee <= minTotalFee(nOldFeeRate, maxNewTxSize)

TotalFeeTooLow(totalFee, nOldFeeRate, maxNewTxSize) ==
    totalFee < minTotalFee(nOldFeeRate, maxNewTxSize)

\* use the user-defined payTxFee if possible, otherwise use smartfee / fallbackfee
WalletFeeRate(est) ==
    IF payTxFee # 0 THEN payTxFee ELSE IF est # 0 THEN est ELSE fallbackFee

\* new fee rate must be at least old rate + minimum relay rate
FlooredFeeRate(nNewFeeRate, nOldFeeRate) ==
    IF nNewFeeRate < nOldFeeRate + minRelayTxFee
    THEN nOldFeeRate + minRelayTxFee
    ELSE nNewFeeRate

BelowMempoolMinFee(nNewFeeRate, minMempoolFeeRate) == nNewFeeRate < minMempoolFeeRate

bumpfee_fee(hash, p, f) ==
    LET wtx == mapWallet[hash]
        txSize == GetVirtualTransactionSize(TxOf(wtx))
        maxNewTxSize == txSize + Len(wtx.vin)
        nOldFee == GetDebit(mapWallet, wtx) - GetValueOut(wtx)
        nOldFeeRate == CFeeRate(nOldFee, txSize)
        totalFee == IF p.hasTotalFee THEN p.totalFee ELSE 0
        g == [f EXCEPT !.nOldFee = nOldFee, !.nOldFeeRate = nOldFeeRate,
                       !.maxNewTxSize = maxNewTxSize]
        nNewFeeRate == IF totalFee > 0
                       THEN CFeeRate(totalFee, txSize)
                       ELSE FlooredFeeRate(WalletFeeRate(p.est), nOldFeeRate)
        nNewFee == IF totalFee > 0 THEN totalFee ELSE GetFee(nNewFeeRate, maxNewTxSize)
    IN  IF totalFee > 0 /\ TotalFeeTooLow(totalFee, nOldFeeRate, maxNewTxSize)
        THEN BumpError(g, "Invalid totalFee, must be at least oldFee + relayFee")
        ELSE IF BelowMempoolMinFee(nNewFeeRate, p.minMempoolFee)
        THEN BumpError(g, "New fee rate is too low to get into the mempool")
        ELSE bumpfee_modify(hash, p, [g EXCEPT !.nNewFee = nNewFee, !.nNewFeeRate = nNewFeeRate])

\* optional parameters, then: fail if the tx has any descendants
bumpfee_options(hash, p, f) ==
    IF p.hasConfTarget /\ p.confTarget <= 0
    THEN BumpError(f, "Invalid confTarget (cannot be <= 0)")
    ELSE IF p.hasTotalFee /\ p.totalFee <= 0
    THEN BumpError(f, "Invalid totalFee (cannot be <= 0)")
    ELSE IF p.hasTotalFee /\ p.totalFee > maxTxFee
    THEN BumpError(f, "Invalid totalFee (cannot be higher than maxTxFee)")
    ELSE IF HasWalletSpend(mapWallet, hash)
    THEN BumpError(f, "Transaction has descendants in the wallet")
    ELSE IF MempoolHasDescendants(mempoolTx, mapWallet, hash)
    THEN BumpError(f, "Transaction has descendants in the mempool")
    ELSE bumpfee_fee(hash, p, f)

OutputOutOfBounds(nOutput, vout) == nOutput < 0 \/ nOutput > Len(vout)

ChangeOutputs_first(vout) ==
    LET change == {i \in 0..(Len(vout) - 1) : IsChange(vout[i + 1])}
    IN  {i \in change : \A j \in change : i <= j}

ChangeOutputs(vout) == {i \in 0..(Len(vout) - 1) : IsChange(vout[i + 1])}

\* the caller's output if it names one, else: figure out which output was change
bumpfee_output(hash, p, f) ==
    LET vout == mapWallet[hash].vout
    IN  IF p.hasOutput
        THEN IF OutputOutOfBounds(p.nOutput, vout)
             THEN BumpError(f, "Output out of bounds")
             ELSE IF p.nOutput >= Len(vout)
             THEN \* wtx.vout[nOutput] reads past the end of the vector
                  IF p.ub.crash THEN BumpCrash(f, "crash")
                  ELSE IF ~p.ub.isChange THEN BumpError(f, "Selected output is not change")
                  ELSE bumpfee_options(hash, p, [f EXCEPT !.nOutput = p.nOutput])
             ELSE IF ~IsChange(vout[p.nOutput + 1])
             THEN BumpError(f, "Selected output is not change")
             ELSE bumpfee_options(hash, p, [f EXCEPT !.nOutput = p.nOutput])
        ELSE IF Cardinality(ChangeOutputs(vout)) > 1
        THEN BumpError(f, "Transaction has multiple change outputs")
        ELSE IF ChangeOutputs(vout) = {}
        THEN BumpError(f, "Transaction does not have a change output")
        ELSE bumpfee_options(hash, p,
                 [f EXCEPT !.nOutput = CHOOSE i \in ChangeOutputs(vout) : TRUE])

AlreadyBumped_never(wtx) == FALSE

AlreadyBumped(wtx) == "replaced_by_txid" \in DOMAIN wtx.mapValue

\* retrieve the original tx from the wallet and check that it can be bumped: the
\* error thrown, "" when there is none
bumpfee_precheck(hash) ==
    IF hash \notin DOMAIN mapWallet
    THEN "Invalid or non-wallet transaction id"
    ELSE IF mapWallet[hash].depth # 0
    THEN "Transaction has been mined, or is conflicted with a mined transaction"
    ELSE IF ~SignalsOptInRBF(mapWallet[hash])
    THEN "Transaction is not BIP 125 replaceable"
    ELSE IF AlreadyBumped(mapWallet[hash])
    THEN "Cannot bump transaction which was already bumped"
    ELSE IF ~IsAllFromMe(mapWallet, mapWallet[hash])
    THEN "Transaction contains inputs that don't belong to this wallet"
    ELSE ""

bumpfee_result(hash, p) ==
    IF bumpfee_precheck(hash) # ""
    THEN BumpError(NoBump, bumpfee_precheck(hash))
    ELSE bumpfee_output(hash, p, NoBump)

WalletAfterBump(hash, r) ==
    LET wtxBumped == [vin |-> r.tx.vin, vout |-> r.tx.vout,
                      mapValue |-> ("replaces_txid" :> hash), depth |-> 0]
        committed == IF r.committed
                     THEN WalletAfterCommit(mapWallet, r.txid, wtxBumped)
                     ELSE mapWallet
    IN  IF r.marked THEN MarkReplaced(committed, hash, r.txid) ELSE committed


(***************************************************************************)
(* The initial wallet: two confirmed received transactions (ids 1 and 2)   *)
(* and one unconfirmed payment (id 3) that spends them, signals            *)
(* replaceability, pays somebody and returns change to the wallet.         *)
(***************************************************************************)
Received(nValue) ==
    [vin |-> <<>>, vout |-> <<TxOut(nValue, "recv")>>, mapValue |-> <<>>, depth |-> 1]

Payment(nIn, payeeScript, nFee, nChange) ==
    LET vin == [i \in 1..nIn |-> TxIn(i, 0, SEQUENCE_FINAL - 2, <<>>)]
        nDebit == IF nIn = 1 THEN 100000 ELSE 160000
        vout == <<TxOut(nDebit - nChange - nFee, payeeScript), TxOut(nChange, "change")>>
    IN  [vin |-> [i \in 1..nIn |-> [vin[i] EXCEPT !.scriptSig = <<vout>>]],
         vout |-> vout, mapValue |-> <<>>, depth |-> 0]

InitPayments ==
    { Payment(1, "payee", 226, 820), Payment(1, "data", 2, 5000),
      Payment(2, "data", 1, 5000), Payment(1, "data", 3, 5000) }

MinRelayRates == {1, 1000}

Init ==
    /\ \E wtx \in InitPayments :
          mapWallet = (1 :> Received(100000)) @@ (2 :> Received(60000)) @@ (3 :> wtx)
    /\ mempoolTx = {TxOf(mapWallet[3])}
    /\ setLockedCoins = {}
    /\ payTxFee = 0
    /\ minRelayTxFee \in MinRelayRates
    /\ mapAddressBook = {}
    /\ keyPool = 2
    /\ mapKeys = WalletKeys
    /\ running = TRUE
    /\ cs_main = 0
    /\ cs_wallet = 0
    /\ mempool_cs = 0
    /\ pc = [t \in Threads |-> Idle]
    /\ ret = [op |-> "init"]

(***************************************************************************)
(* The parameters a model run draws bumpfee calls from.                    *)
(***************************************************************************)
NoUB == [crash |-> FALSE, isChange |-> FALSE, nValue |-> 0, discard |-> FALSE, eraseLast |-> FALSE]

UBOutcomes ==
    { [NoUB EXCEPT !.crash = TRUE],
      NoUB,
      [NoUB EXCEPT !.isChange = TRUE],
      [NoUB EXCEPT !.isChange = TRUE, !.nValue = 100000],
      [NoUB EXCEPT !.isChange = TRUE, !.nValue = 100000, !.discard = TRUE],
      [NoUB EXCEPT !.isChange = TRUE, !.nValue = 100000, !.discard = TRUE, !.eraseLast = TRUE] }

BumpParams(Outputs, TotalFees, ConfTargets, Estimates, MinFees) ==
    { [hasOutput |-> o >= -1, nOutput |-> o,
       hasTotalFee |-> t # -1, totalFee |-> t,
       hasConfTarget |-> c # -1, confTarget |-> c,
       est |-> e, minMempoolFee |-> m]
      : o \in Outputs, t \in TotalFees, c \in ConfTargets, e \in Estimates, m \in MinFees }

\* What the signer, the commit and the marking answer: all succeed, or one of them fails.
Fates ==
    { [signOk |-> TRUE, commitOk |-> TRUE, markOk |-> TRUE],
      [signOk |-> FALSE, commitOk |-> TRUE, markOk |-> TRUE],
      [signOk |-> TRUE, commitOk |-> FALSE, markOk |-> TRUE],
      [signOk |-> TRUE, commitOk |-> TRUE, markOk |-> FALSE] }

AllOk == [signOk |-> TRUE, commitOk |-> TRUE, markOk |-> TRUE]

CallOf(q, ub, fate) ==
    [hasOutput |-> q.hasOutput, nOutput |-> q.nOutput,
     hasTotalFee |-> q.hasTotalFee, totalFee |-> q.totalFee,
     hasConfTarget |-> q.hasConfTarget, confTarget |-> q.confTarget,
     est |-> q.est, minMempoolFee |-> q.minMempoolFee, ub |-> ub,
     signOk |-> fate.signOk, commitOk |-> fate.commitOk, markOk |-> fate.markOk]

ReadsPastEnd(hash, q) ==
    /\ hash \in DOMAIN mapWallet
    /\ q.hasOutput
    /\ q.nOutput = Len(mapWallet[hash].vout)

bumpfee(Hashes, Params) ==
    /\ running
    /\ UNCHANGED lockVars
    /\ \E hash \in Hashes, q \in Params :
       /\ q.hasTotalFee => q.est = 0
       /\ \E ub \in (IF ReadsPastEnd(hash, q) THEN UBOutcomes ELSE {NoUB}) :
          \E fate \in (IF bumpfee_result(hash, CallOf(q, ub, AllOk)).submitted
                       THEN Fates ELSE {AllOk}) :
             LET r == bumpfee_result(hash, CallOf(q, ub, fate))
             IN  /\ r.committed => Cardinality(DOMAIN mapWallet) < MaxWalletTx
                 /\ mapWallet' = WalletAfterBump(hash, r)
                 /\ mempoolTx' = IF r.committed THEN PoolAfterAccept(mempoolTx, r.tx)
                                 ELSE mempoolTx
                 /\ running' = ~r.crash
                 /\ ret' = [op |-> "bumpfee", hash |-> hash, p |-> q, r |-> r]
    /\ UNCHANGED <<setLockedCoins, payTxFee, minRelayTxFee, mapAddressBook, keyPool, mapKeys>>

\* settxfee: payTxFee = CFeeRate(nAmount, 1000)
settxfee(Amounts) ==
    /\ running
    /\ UNCHANGED lockVars
    /\ \E nAmount \in Amounts :
          /\ payTxFee' = CFeeRate(nAmount, 1000)
          /\ ret' = [op |-> "settxfee", nAmount |-> nAmount]
    /\ UNCHANGED <<mapWallet, mempoolTx, setLockedCoins, minRelayTxFee, mapAddressBook,
                   keyPool, mapKeys, running>>

(***************************************************************************)
(* The chain: a block confirms an unconfirmed wallet transaction whose     *)
(* inputs are confirmed; the unconfirmed transactions that spend one of    *)
(* its inputs become conflicted (depth below zero).                        *)
(***************************************************************************)
BlockConnected ==
    /\ running
    /\ UNCHANGED lockVars
    /\ \E hash \in DOMAIN mapWallet :
          /\ mapWallet[hash].depth = 0
          /\ \A i \in 1..Len(mapWallet[hash].vin) :
                /\ mapWallet[hash].vin[i].prevout.hash \in DOMAIN mapWallet
                /\ mapWallet[mapWallet[hash].vin[i].prevout.hash].depth > 0
          /\ mapWallet' =
                [h \in DOMAIN mapWallet |->
                    IF h = hash THEN [mapWallet[h] EXCEPT !.depth = 1]
                    ELSE IF mapWallet[h].depth = 0 /\ Conflicts(mapWallet[h], mapWallet[hash])
                    THEN [mapWallet[h] EXCEPT !.depth = -1]
                    ELSE mapWallet[h]]
          /\ mempoolTx' = {m \in mempoolTx : ~Conflicts(m, mapWallet[hash])}
          /\ ret' = [op |-> "block", hash |-> hash]
    /\ UNCHANGED <<setLockedCoins, payTxFee, minRelayTxFee, mapAddressBook, keyPool, mapKeys, running>>

(***************************************************************************)
(* sweepprivkeys.  The unspent outputs that pay the keys a caller may hand *)
(* in, by txid: key k1 controls two, k2 one small one, k3 none, k4 one of  *)
(* value zero.                                                             *)
(***************************************************************************)
SweepKeys == {"k1", "k2", "k3", "k4"}

UnspentOf(key) ==
    IF key = "k1" THEN {[hash |-> 101, n |-> 0, nValue |-> 6000],
                        [hash |-> 102, n |-> 1, nValue |-> 4000]}
    ELSE IF key = "k2" THEN {[hash |-> 103, n |-> 0, nValue |-> 700]}
    ELSE IF key = "k4" THEN {[hash |-> 104, n |-> 0, nValue |-> 0]}
    ELSE {}

\* FindScriptPubKey fills a std::map keyed by txid: the matches come out in txid order.
RECURSIVE ByHash(_)
ByHash(coins) ==
    IF coins = {} THEN <<>>
    ELSE LET first == CHOOSE c \in coins : \A d \in coins : c.hash <= d.hash
         IN  <<first>> \o ByHash(coins \ {first})

FoundCoins(keys) == ByHash(UNION {UnspentOf(k) : k \in keys})

\* CWallet::GetMinimumFee at nTxConfirmTarget: the wallet's rate, never below the relay fee.
GetMinimumFee(nBytes, est) ==
    Max(GetFee(WalletFeeRate(est), nBytes), GetFee(minRelayTxFee, nBytes))

SweepTx_signedOnce(coins, nValue) ==
    LET vout == <<TxOut(nValue, "recv")>>
        first == <<TxOut(SumSeq([i \in 1..Len(coins) |-> coins[i].nValue]), "recv")>>
    IN  [vin |-> [i \in 1..Len(coins) |->
                    TxIn(coins[i].hash, coins[i].n, SEQUENCE_FINAL, <<first>>)],
         vout |-> vout]

\* The sweep with its single output and every input signed over it (SIGHASH_ALL).
SweepTx(coins, nValue) ==
    LET vout == <<TxOut(nValue, "recv")>>
    IN  [vin |-> [i \in 1..Len(coins) |->
                    TxIn(coins[i].hash, coins[i].n, SEQUENCE_FINAL, <<vout>>)],
         vout |-> vout]

NoSweep ==
    [err |-> "", tx |-> NoTx, nTotalIn |-> 0, nFeeNeeded |-> 0, nBytes |-> 0,
     passes |-> 0, dustChecked |-> -1, reserved |-> FALSE, created |-> FALSE,
     submitted |-> FALSE, accepted |-> FALSE, values |-> <<>>, tempKeystore |-> {}]

\* A signature is 71 or 72 bytes: a signed transaction is its full size or a byte less.
SignedSizes(tx) == {GetVirtualTransactionSize(tx) - short : short \in 0..1}

FeeCovered_strictly(nFeeNeeded, nTotalIn, nTotalOut) == nFeeNeeded < nTotalIn - nTotalOut

\* if (nFeeNeeded <= nTotalIn - nTotalOut) break
FeeCovered(nFeeNeeded, nTotalIn, nTotalOut) == nFeeNeeded <= nTotalIn - nTotalOut

SweptIsDust_never(nValue) == FALSE

\* tx.vout[0].IsDust(::minRelayTxFee)
SweptIsDust(nValue) == IsDust(TxOut(nValue, "recv"), minRelayTxFee)

\* while (true): dust check, sign every input, measure, compute the fee, break or lower
\* the output.  The set of results the loop can end with, f being the call so far;
\* values are the output values of the passes, and a loop still running after
\* MaxPasses passes is cut off as "still looping".
RECURSIVE SweepLoop(_, _, _, _, _)
SweepLoop(coins, nValue, est, signOk, f) ==
    IF f.passes >= MaxPasses
    THEN {[f EXCEPT !.err = "still looping", !.values = Append(f.values, nValue)]}
    ELSE IF SweptIsDust(nValue)
    THEN {[f EXCEPT !.err = "Swept value would be dust", !.dustChecked = nValue,
                    !.values = Append(f.values, nValue)]}
    ELSE IF ~signOk
    THEN {[f EXCEPT !.err = "Failed to sign", !.dustChecked = nValue,
                    !.values = Append(f.values, nValue)]}
    ELSE UNION { LET nFeeNeeded == GetMinimumFee(nBytes, est)
                     g == [f EXCEPT !.tx = SweepTx(coins, nValue), !.nBytes = nBytes,
                                    !.nFeeNeeded = nFeeNeeded, !.passes = f.passes + 1,
                                    !.dustChecked = nValue,
                                    !.values = Append(f.values, nValue)]
                 IN  IF FeeCovered(nFeeNeeded, f.nTotalIn, nValue)
                     THEN {g}
                     ELSE SweepLoop(coins, f.nTotalIn - nFeeNeeded, est, signOk, g)
               : nBytes \in SignedSizes(SweepTx(coins, nValue)) }

\* The wallet is encrypted and locked while keys are swept: TopUpKeyPool is skipped.
IsLocked == TRUE

NothingToSweep_never(nTotalIn) == FALSE

NothingToSweep(nTotalIn) == nTotalIn = 0

\* CWallet::SetAddressBook, CWallet::DelAddressBook on the key with the given index.
SetAddressBook(book, key, strLabel) ==
    {e \in book : e.key # key} \cup {[key |-> key, label |-> strLabel]}

DelAddressBook_not(book, key) == book

DelAddressBook(book, key) == {e \in book : e.key # key}

\* CReserveKey: the reserved key is the pool's next one; KeepKey takes it out of the
\* pool, the destructor of a key that was not kept returns it.
KeepKey(pool) == pool - 1

ReturnKey(pool) == pool

ParsePrivKeys_intoWallet(keys) == [tempKeystore |-> {}, mapKeys |-> mapKeys \cup keys]

\* The key stores after the options are parsed: every key of "privkeys" is added to the
\* local CBasicKeyStore tempKeystore, none to the wallet.
ParsePrivKeys(keys) == [tempKeystore |-> keys, mapKeys |-> mapKeys]

\* The key that owns a swept coin.
OwnerOf(coin) == CHOOSE k \in SweepKeys : coin \in UnspentOf(k)

\* ProduceSignature with a creator reading keystore: the key of every input is needed.
CanSign(keystore, coins) == \A i \in 1..Len(coins) : OwnerOf(coins[i]) \in keystore

\* The results of one call, up to the submission.
sweepprivkeys_results(keys, est, signOk) ==
    LET tempKeystore == ParsePrivKeys(keys).tempKeystore
        none == [NoSweep EXCEPT !.tempKeystore = tempKeystore]
    IN
    IF IsLocked /\ keyPool = 0
    THEN {[none EXCEPT !.err = "Error: Keypool ran out, please call keypoolrefill first"]}
    ELSE LET coins == FoundCoins(keys)
             nTotalIn == SumSeq([i \in 1..Len(coins) |-> coins[i].nValue])
             f == [none EXCEPT !.reserved = TRUE, !.nTotalIn = nTotalIn]
         IN  IF NothingToSweep(nTotalIn)
             THEN {[f EXCEPT !.err = "No value to sweep"]}
             ELSE SweepLoop(coins, nTotalIn, est, signOk /\ CanSign(tempKeystore, coins),
                            [f EXCEPT !.created = TRUE])

sweepprivkeys(KeySets, Labels, Estimates) ==
    /\ running
    /\ UNCHANGED lockVars
    /\ \E keys \in KeySets, strLabel \in Labels, est \in Estimates, signOk \in BOOLEAN :
       \E f \in sweepprivkeys_results(keys, est, signOk) :
       \E acceptOk \in (IF f.err = "" THEN BOOLEAN ELSE {FALSE}) :
          LET r == IF f.err # "" THEN f
                   ELSE IF acceptOk /\ f.tx \notin mempoolTx
                   THEN [f EXCEPT !.submitted = TRUE, !.accepted = TRUE]
                   ELSE [f EXCEPT !.submitted = TRUE, !.err = "rejected"]
              labelled == SetAddressBook(mapAddressBook, keyPool, strLabel)
          IN  /\ mempoolTx' = IF r.accepted THEN PoolAfterAccept(mempoolTx, r.tx) ELSE mempoolTx
              /\ mapAddressBook' = IF ~r.submitted THEN mapAddressBook
                                   ELSE IF r.accepted THEN labelled
                                   ELSE DelAddressBook(labelled, keyPool)
              /\ keyPool' = IF r.accepted THEN KeepKey(keyPool) ELSE ReturnKey(keyPool)
              /\ mapKeys' = ParsePrivKeys(keys).mapKeys
              /\ ret' = [op |-> "sweepprivkeys", keys |-> keys, strLabel |-> strLabel,
                         est |-> est, r |-> r]
    /\ UNCHANGED <<mapWallet, setLockedCoins, payTxFee, minRelayTxFee, running>>

(***************************************************************************)
(* lockunspent.  The entries are handled one after the other: an entry     *)
(* that fails its checks throws, the entries before it have been applied.  *)
(***************************************************************************)
LockEntry(isHex, hash, nOutput) ==
    [isObject |-> TRUE, isHex |-> isHex, txid |-> hash, vout |-> nOutput]

\* An element of the list that is not a JSON object.
NotAnObject == [isObject |-> FALSE, isHex |-> FALSE, txid |-> 0, vout |-> 0]

EntryError(o) ==
    IF ~o.isObject THEN "Invalid parameter, expected object"
    ELSE IF ~o.isHex THEN "Invalid parameter, expected hex txid"
    ELSE IF o.vout < 0 THEN "Invalid parameter, vout must be positive"
    ELSE ""

COutPoint(hash, n) == [hash |-> hash, n |-> n]

ApplyLock_toggle(fUnlock, locked, outpt) ==
    IF outpt \in locked THEN locked \ {outpt} ELSE locked \cup {outpt}

\* if (fUnlock) pwallet->UnlockCoin(outpt); else pwallet->LockCoin(outpt);
ApplyLock(fUnlock, locked, outpt) ==
    IF fUnlock THEN locked \ {outpt} ELSE locked \cup {outpt}

RECURSIVE lockunspent_loop(_, _, _)
lockunspent_loop(fUnlock, outputs, locked) ==
    IF outputs = <<>> THEN [err |-> "", locked |-> locked]
    ELSE LET o == Head(outputs)
             outpt == COutPoint(o.txid, o.vout)
         IN  IF EntryError(o) # "" THEN [err |-> EntryError(o), locked |-> locked]
             ELSE lockunspent_loop(fUnlock, Tail(outputs), ApplyLock(fUnlock, locked, outpt))

lockunspent_result(fUnlock, hasOutputs, outputs) ==
    IF ~hasOutputs
    THEN [err |-> "", locked |-> IF fUnlock THEN {} ELSE setLockedCoins]
    ELSE lockunspent_loop(fUnlock, outputs, setLockedCoins)

lockunspent(Entries) ==
    /\ running
    /\ UNCHANGED lockVars
    /\ \E fUnlock \in BOOLEAN, hasOutputs \in BOOLEAN :
       \E outputs \in (IF hasOutputs
                       THEN {<<>>} \cup {<<a>> : a \in Entries}
                                   \cup {<<a, b>> : a \in Entries, b \in Entries}
                       ELSE {<<>>}) :
          LET r == lockunspent_result(fUnlock, hasOutputs, outputs)
          IN  /\ setLockedCoins' = r.locked
              /\ ret' = [op |-> "lockunspent", fUnlock |-> fUnlock,
                         hasOutputs |-> hasOutputs, outputs |-> outputs, err |-> r.err]
    /\ UNCHANGED <<mapWallet, mempoolTx, payTxFee, minRelayTxFee, mapAddressBook,
                   keyPool, mapKeys, running>>

\* CWallet::ListLockedCoins: the set, in the order of std::set<COutPoint>.
RECURSIVE ListLockedCoins(_)
ListLockedCoins(locked) ==
    IF locked = {} THEN <<>>
    ELSE LET first == CHOOSE a \in locked : \A b \in locked :
                          a.hash < b.hash \/ (a.hash = b.hash /\ a.n <= b.n)
         IN  <<first>> \o ListLockedCoins(locked \ {first})

listlockunspent ==
    /\ running
    /\ UNCHANGED lockVars
    /\ ret' = [op |-> "listlockunspent",
               result |-> [i \in 1..Cardinality(setLockedCoins) |->
                             [txid |-> ListLockedCoins(setLockedCoins)[i].hash,
                              vout |-> ListLockedCoins(setLockedCoins)[i].n]]]
    /\ UNCHANGED <<mapWallet, mempoolTx, setLockedCoins, payTxFee, minRelayTxFee,
                   mapAddressBook, keyPool, mapKeys, running>>

(***************************************************************************)
(* fundrawtransaction.  CWallet::FundTransaction and the coin selection    *)
(* behind it are outside this file: they are modelled by their contract.   *)
(***************************************************************************)
InsertAt(seq, pos, e) ==
    [j \in 1..(Len(seq) + 1) |->
        IF j <= pos THEN seq[j] ELSE IF j = pos + 1 THEN e ELSE seq[j - 1]]

IsSpent(wallet, outpt) ==
    \E h \in DOMAIN wallet :
       /\ wallet[h].depth >= 0
       /\ \E i \in 1..Len(wallet[h].vin) : wallet[h].vin[i].prevout = outpt

AvailableCoins_ignoringLocks(wallet, locked) ==
    { outpt \in UNION { {COutPoint(h, i - 1) : i \in 1..Len(wallet[h].vout)} : h \in DOMAIN wallet } :
         /\ wallet[outpt.hash].depth >= 0
         /\ PrevoutIsMine(wallet, outpt)
         /\ ~IsSpent(wallet, outpt) }

\* CWallet::AvailableCoins: the wallet's own unspent outputs that are not locked.
AvailableCoins(wallet, locked) ==
    { outpt \in UNION { {COutPoint(h, i - 1) : i \in 1..Len(wallet[h].vout)} : h \in DOMAIN wallet } :
         /\ wallet[outpt.hash].depth >= 0
         /\ PrevoutIsMine(wallet, outpt)
         /\ ~IsSpent(wallet, outpt)
         /\ outpt \notin locked }

FundFee(rate, tx) ==
    Max(GetFee(rate, GetVirtualTransactionSize(tx)), GetFee(minRelayTxFee, GetVirtualTransactionSize(tx)))

NoFunding(strFailReason) ==
    [ok |-> FALSE, strFailReason |-> strFailReason, tx |-> NoTx, nFeeOut |-> 0,
     changePosition |-> -1, added |-> {}]

\* The results of funding tx with the coins in selected: the new inputs are appended
\* unsigned, the change (if it is not dust) is inserted at the requested or at any position.
FundedWith(tx, selected, rate, changePosition, nSequence) ==
    LET coins == ByHash(selected)
        vin == tx.vin \o [i \in 1..Len(coins) |-> TxIn(coins[i].hash, coins[i].n, nSequence, <<>>)]
        nValueIn == SumSeq([i \in 1..Len(vin) |-> PrevoutValue(mapWallet, vin[i].prevout)])
        nValueOut == GetValueOut(tx)
        Positions == IF changePosition = -1 THEN 0..Len(tx.vout) ELSE {changePosition}
        WithChange(pos) ==
            LET shape == [vin |-> vin, vout |-> InsertAt(tx.vout, pos, TxOut(0, "change"))]
                nFee == FundFee(rate, shape)
                txoChange == TxOut(nValueIn - nValueOut - nFee, "change")
            IN  IF IsDust(txoChange, minRelayTxFee) THEN {}
                ELSE {[ok |-> TRUE, strFailReason |-> "",
                       tx |-> [vin |-> vin, vout |-> InsertAt(tx.vout, pos, txoChange)],
                       nFeeOut |-> nFee, changePosition |-> pos, added |-> selected]}
        NoChange ==
            LET plain == [vin |-> vin, vout |-> tx.vout]
                nChange == nValueIn - nValueOut - FundFee(rate, plain)
            IN  IF nChange < 0 \/ ~IsDust(TxOut(nChange, "change"), minRelayTxFee) THEN {}
                ELSE {[ok |-> TRUE, strFailReason |-> "", tx |-> plain,
                       nFeeOut |-> nValueIn - nValueOut, changePosition |-> -1,
                       added |-> selected]}
    IN  NoChange \cup UNION {WithChange(pos) : pos \in Positions}

FundTransaction(tx, rate, changePosition, nSequence) ==
    IF \E i \in 1..Len(tx.vout) : tx.vout[i].nValue < 0
    THEN {NoFunding("Transaction amounts must be positive")}
    ELSE IF \E i \in 1..Len(tx.vin) : ~PrevoutKnown(mapWallet, tx.vin[i].prevout)
    THEN {NoFunding("Insufficient funds")}
    ELSE LET avail == AvailableCoins(mapWallet, setLockedCoins) \
                         {tx.vin[i].prevout : i \in 1..Len(tx.vin)}
             funded == UNION { FundedWith(tx, selected, rate, changePosition, nSequence) :
                                  selected \in {S \in SUBSET avail : Cardinality(S) <= MaxAddedInputs} }
         IN  IF funded = {} THEN {NoFunding("Insufficient funds")} ELSE funded

ChangePositionOutOfBounds_never(changePosition, vout) == FALSE

\* changePosition != -1 && (changePosition < 0 || (unsigned int)changePosition > vout.size())
ChangePositionOutOfBounds(changePosition, vout) ==
    changePosition # -1 /\ (changePosition < 0 \/ changePosition > Len(vout))

MutableCopy_outputsOnly(origTx) == [vin |-> <<>>, vout |-> origTx.vout]

\* CMutableTransaction tx(origTx)
MutableCopy(origTx) == [vin |-> origTx.vin, vout |-> origTx.vout]

FundSequence(optIntoRbf) ==
    IF optIntoRbf = "true" THEN SEQUENCE_FINAL - 2 ELSE SEQUENCE_FINAL - 1

FundRate(o) == IF o.hasFeeRate THEN o.feeRate ELSE WalletFeeRate(0)

\* selector: the strFailReason FundTransaction answered, "" when it was not called or
\* succeeded.
NoFund ==
    [err |-> "", hex |-> NoTx, changepos |-> -1, fee |-> 0, added |-> {}, selector |-> ""]

FundingError_generic(strFailReason) == "Insufficient funds"

\* throw JSONRPCError(RPC_INTERNAL_ERROR, strFailReason)
FundingError(strFailReason) == strFailReason

\* The results of one call.
fundrawtransaction_results(hexstring, o) ==
    IF ~hexstring.decodes THEN {[NoFund EXCEPT !.err = "TX decode failed"]}
    ELSE LET origTx == hexstring.tx
         IN  IF Len(origTx.vout) = 0
             THEN {[NoFund EXCEPT !.err = "TX must have at least one output"]}
             ELSE IF ChangePositionOutOfBounds(o.changePosition, origTx.vout)
             THEN {[NoFund EXCEPT !.err = "changePosition out of bounds"]}
             ELSE { IF ~g.ok
                    THEN [NoFund EXCEPT !.err = FundingError(g.strFailReason),
                                        !.selector = g.strFailReason]
                    ELSE [err |-> "", hex |-> g.tx, changepos |-> g.changePosition,
                          fee |-> g.nFeeOut, added |-> g.added, selector |-> ""]
                    : g \in FundTransaction(MutableCopy(origTx), FundRate(o), o.changePosition,
                                            FundSequence(o.optIntoRbf)) }

FundOptions(Positions, FeeRates) ==
    [changePosition : Positions, lockUnspents : BOOLEAN, optIntoRbf : {"true"},
     hasFeeRate : {TRUE}, feeRate : FeeRates]
      \cup [changePosition : Positions, lockUnspents : BOOLEAN, optIntoRbf : {"unset"},
            hasFeeRate : {FALSE}, feeRate : {0}]

fundrawtransaction(HexStrings, Options) ==
    /\ running
    /\ UNCHANGED lockVars
    /\ \E hexstring \in HexStrings, o \in Options :
       \E r \in fundrawtransaction_results(hexstring, o) :
          /\ setLockedCoins' = IF r.err = "" /\ o.lockUnspents
                               THEN setLockedCoins \cup r.added ELSE setLockedCoins
          /\ ret' = [op |-> "fundrawtransaction", hexstring |-> hexstring,
                     changePosition |-> o.changePosition, r |-> r]
    /\ UNCHANGED <<mapWallet, mempoolTx, payTxFee, minRelayTxFee, mapAddressBook,
                   keyPool, mapKeys, running>>

RawTx(vin, vout) == [decodes |-> TRUE, tx |-> [vin |-> vin, vout |-> vout]]

HexStrings ==
    { [decodes |-> FALSE, tx |-> NoTx],
      RawTx(<<>>, <<>>),
      RawTx(<<>>, <<TxOut(1000, "payee")>>),
      RawTx(<<TxIn(2, 0, SEQUENCE_FINAL, <<<<TxOut(3000, "payee")>>>>)>>,
            <<TxOut(3000, "payee"), TxOut(1000, "data")>>),
      RawTx(<<TxIn(9, 0, SEQUENCE_FINAL, <<>>)>>, <<TxOut(1000, "payee")>>),
      RawTx(<<>>, <<TxOut(-1, "payee")>>) }

LockEntries == {LockEntry(TRUE, 2, 0), LockEntry(TRUE, 3, 1), LockEntry(TRUE, 3, -1),
                LockEntry(FALSE, 0, 0)}

(***************************************************************************)
(* Specifications.                                                         *)
(***************************************************************************)
\* The calls each specification draws from.
BumpCalls == BumpParams({-2, 1, 2}, {-1, 2, 4, 500}, {-1}, {0}, {0})

NextBump ==
    \/ bumpfee(3..MaxWalletTx, BumpCalls)
    \/ settxfee({0, 1})

SpecBump == Init /\ [][NextBump]_vars

\* Fewer calls: the state space stays small as MaxWalletTx grows and replacements are replaced.
ChainBumpCalls == BumpParams({-2, 1}, {-1, 300, 501}, {-1}, {0}, {0})

NextBumpChain ==
    \/ bumpfee(3..MaxWalletTx, ChainBumpCalls)
    \/ settxfee({0, 1})

SpecBumpChain == Init /\ [][NextBumpChain]_vars

SweepKeySets == {{"k1"}, {"k2"}, {"k3", "k4"}, {"k1", "k2"}}

NextSweep ==
    \/ sweepprivkeys(SweepKeySets, {"swept"}, {0, 3000})
    \/ settxfee({0, 1})

SpecSweep == Init /\ [][NextSweep]_vars

FundCalls == FundOptions({-2, -1, 1, 3}, {1000})

NextFund ==
    \/ fundrawtransaction(HexStrings, FundCalls)
    \/ lockunspent(LockEntries)
    \/ listlockunspent
    \/ settxfee({0, 1})

SpecFund == Init /\ [][NextFund]_vars

\* Locks on the outpoints that funding and sweeping may meet.
SpendLockEntries == {LockEntry(TRUE, 2, 0), LockEntry(TRUE, 3, 1), LockEntry(TRUE, 103, 0)}

SpendHexStrings ==
    { RawTx(<<>>, <<TxOut(1000, "payee")>>),
      RawTx(<<TxIn(2, 0, SEQUENCE_FINAL, <<>>)>>, <<TxOut(62000, "payee")>>) }

SpendFundCalls == FundOptions({-1}, {1000})

NextLocked ==
    \/ lockunspent(SpendLockEntries)
    \/ fundrawtransaction(SpendHexStrings, SpendFundCalls)
    \/ sweepprivkeys({{"k2"}, {"k1", "k2"}}, {"swept"}, {3000})

SpecLocked == Init /\ [][NextLocked]_vars

\* Every operation, each with few inputs, and the chain.
FewBumpCalls == BumpParams({-2}, {-1, 500}, {-1}, {0}, {0})

FewLockEntries == {LockEntry(TRUE, 3, 1)}

FewHexStrings == {RawTx(<<>>, <<TxOut(1000, "payee")>>)}

FewFundCalls == FundOptions({0}, {1000})

Next ==
    \/ bumpfee(3..MaxWalletTx, FewBumpCalls)
    \/ BlockConnected
    \/ lockunspent(FewLockEntries)
    \/ fundrawtransaction(FewHexStrings, FewFundCalls)
    \/ sweepprivkeys({{"k2"}}, {"swept"}, {3000})
    \/ settxfee({0})

Spec == Init /\ [][Next]_vars

(***************************************************************************)
(* Properties of bumpfee.                                                  *)
(***************************************************************************)
BumpReturned == ret.op = "bumpfee"

BumpSucceeded == ret.op = "bumpfee" /\ ret.r.err = ""

\* The call named an output of the original (by parameter or by the search for change).
BumpDesignated ==
    /\ BumpSucceeded
    /\ ret.r.nOutput >= 0
    /\ ret.r.nOutput < Len(mapWallet[ret.hash].vout)

\* C1: in every bumpfee that reaches the fee-delta computation, nDelta = nNewFee - nOldFee
\* is strictly positive: assert(nDelta > 0) never fails, and every successful bump pays
\* strictly more total fee than the original.
C1_DeltaAlwaysPositive ==
    BumpReturned =>
        /\ ret.r.err # "assert(nDelta > 0)"
        /\ ret.r.err = "" => (ret.r.nDelta > 0 /\ ret.r.nNewFee > ret.r.nOldFee)

\* C2: for every successful bumpfee the fee rate assigned to the replacement is at least
\* the original fee rate plus the minimum relay fee rate, with and without totalFee.
C2_NewRateAtLeastOldPlusRelay ==
    BumpSucceeded => ret.r.nNewFeeRate >= ret.r.nOldFeeRate + minRelayTxFee

\* C4: in every successful bumpfee whose change output is kept, the change output of the
\* replacement is the original's less exactly nNewFee - nOldFee, every other output is
\* unchanged and in place, and the inputs are the original's (outpoints, sequence
\* numbers, order).
C4_ChangeReducedByDelta ==
    (BumpDesignated /\ ~ret.r.discarded) =>
        LET T == mapWallet[ret.hash]
            B == mapWallet[ret.r.txid]
            n == ret.r.nOutput + 1
        IN  /\ Len(B.vout) = Len(T.vout)
            /\ B.vout[n].nValue = T.vout[n].nValue - (ret.r.nNewFee - ret.r.nOldFee)
            /\ B.vout[n].scriptPubKey = T.vout[n].scriptPubKey
            /\ \A i \in 1..Len(T.vout) : i # n => B.vout[i] = T.vout[i]
            /\ Prevouts(B) = Prevouts(T)
            /\ SequenceNumbers(B) = SequenceNumbers(T)

C4_Witness ==
    /\ BumpDesignated
    /\ ~ret.r.discarded
    /\ ret.r.txid # ret.hash
    /\ ret.r.nNewFee - ret.r.nOldFee > 0
    /\ Len(mapWallet[ret.hash].vout) > 1

\* C5: bumpfee drops the change output when, and only when, its value less the fee delta
\* is below that output's dust threshold (a reduced value equal to the threshold is
\* kept); a dropped output leaves one output fewer, the others unchanged, and its
\* remaining value in the new fee.
C5_DropOnlyBelowDust ==
    BumpDesignated =>
        LET T == mapWallet[ret.hash]
            B == ret.r.tx
            n == ret.r.nOutput + 1
            remaining == T.vout[n].nValue - ret.r.nDelta
            dropped == Len(B.vout) < Len(T.vout)
        IN  /\ dropped <=> remaining < GetDustThreshold(T.vout[n], minRelayTxFee)
            /\ dropped =>
                  /\ B.vout = RemoveAt(T.vout, n)
                  /\ ret.r.nNewFee = ret.r.nOldFee + ret.r.nDelta + remaining

\* C6: a successful bumpfee of T producing B leaves B with "replaces" T and T with
\* "replaced-by" B, and in every wallet state a record replaces X exactly when X's
\* record is replaced by it.
C6_LinkBidirectional ==
    /\ BumpSucceeded =>
          /\ ret.r.txid \in DOMAIN mapWallet
          /\ "replaces_txid" \in DOMAIN mapWallet[ret.r.txid].mapValue
          /\ mapWallet[ret.r.txid].mapValue["replaces_txid"] = ret.hash
          /\ "replaced_by_txid" \in DOMAIN mapWallet[ret.hash].mapValue
          /\ mapWallet[ret.hash].mapValue["replaced_by_txid"] = ret.r.txid
    /\ \A b \in DOMAIN mapWallet : \A x \in DOMAIN mapWallet :
          ("replaces_txid" \in DOMAIN mapWallet[b].mapValue
              /\ mapWallet[b].mapValue["replaces_txid"] = x)
          <=> ("replaced_by_txid" \in DOMAIN mapWallet[x].mapValue
                  /\ mapWallet[x].mapValue["replaced_by_txid"] = b)

\* C7: a bumpfee call that returns an error leaves the wallet's records, their
\* annotations and the pending pool as they were; a replacement is committed only by a
\* call that returns success.
C7_ErrorLeavesWalletUntouched ==
    [][(ret'.op = "bumpfee" /\ ret'.r.err # "")
          => (mapWallet' = mapWallet /\ mempoolTx' = mempoolTx)]_vars

\* C3: a bumpfee of a transaction that carries a replaced-by annotation fails, whatever
\* its options and whatever ran since the annotation was set: with the error 'already
\* bumped' while the transaction is unconfirmed and unconflicted, and with the error
\* 'mined or conflicted' once a block has confirmed it or a transaction it conflicts with.
C3_LaterBumpFails ==
    [][(/\ ret'.op = "bumpfee"
        /\ ret'.hash \in DOMAIN mapWallet
        /\ "replaced_by_txid" \in DOMAIN mapWallet[ret'.hash].mapValue)
          => ret'.r.err =
                IF mapWallet[ret'.hash].depth = 0
                THEN "Cannot bump transaction which was already bumped"
                ELSE "Transaction has been mined, or is conflicted with a mined transaction"]_vars

\* C3 as stated: every such call fails with the error 'already bumped'.
C3_LaterBumpAlreadyBumped ==
    [][(/\ ret'.op = "bumpfee"
        /\ ret'.hash \in DOMAIN mapWallet
        /\ "replaced_by_txid" \in DOMAIN mapWallet[ret'.hash].mapValue)
          => ret'.r.err = "Cannot bump transaction which was already bumped"]_vars

C3_Witness ==
    /\ ret.op = "bumpfee"
    /\ ret.r.err = "Cannot bump transaction which was already bumped"
    /\ ret.hash \in DOMAIN mapWallet
    /\ "replaced_by_txid" \in DOMAIN mapWallet[ret.hash].mapValue
    /\ setLockedCoins # {}
    /\ mapAddressBook # {}

(***************************************************************************)
(* Properties of sweepprivkeys.                                            *)
(***************************************************************************)
SweepReturned == ret.op = "sweepprivkeys"

MatchedValue(keys) ==
    SumSeq([i \in 1..Len(FoundCoins(keys)) |-> FoundCoins(keys)[i].nValue])

NoOutputSignedOrSubmitted ==
    /\ ~ret.r.created
    /\ ret.r.tx = NoTx
    /\ ret.r.passes = 0
    /\ ~ret.r.submitted

C9_NeverSubmitsDust ==
    SweepReturned =>
        /\ ret.r.created =>
              (IsDust(TxOut(ret.r.dustChecked, "recv"), minRelayTxFee)
                  <=> ret.r.err = "Swept value would be dust")
        /\ ret.r.submitted =>
              /\ Len(ret.r.tx.vout) = 1
              /\ ~IsDust(ret.r.tx.vout[1], minRelayTxFee)
              /\ ret.r.dustChecked = ret.r.tx.vout[1].nValue

C9_Witness ==
    /\ SweepReturned
    /\ ret.r.accepted
    /\ ret.r.passes >= 2
    /\ ret.r.tx.vout[1].nValue < ret.r.nTotalIn
    /\ ret.r.tx \in mempoolTx

\* The passes of the last sweep: pass i ran with the output value ret.r.values[i].
SweepPasses == 1..Len(ret.r.values)

\* C23: the fee/size loop of sweepprivkeys ends: every pass that does not leave the loop
\* strictly lowers the output value, and, when the inputs can be signed, the loop is
\* left within MaxPasses passes either with the fee required for the signed size covered
\* by total_in minus the output value, or with the failure that the output is dust.
C23_SweepLoopTerminates ==
    (SweepReturned /\ ret.r.created) =>
        /\ ret.r.err # "still looping"
        /\ ret.r.values[1] = ret.r.nTotalIn
        /\ \A i \in SweepPasses : i > 1 => ret.r.values[i] < ret.r.values[i - 1]
        /\ ret.r.err # "Failed to sign" =>
              \/ /\ ret.r.err = "Swept value would be dust"
                 /\ ~ret.r.submitted
              \/ /\ ret.r.err \in {"", "rejected"}
                 /\ ret.r.passes = Len(ret.r.values)
                 /\ ret.r.nFeeNeeded <= ret.r.nTotalIn - ret.r.values[ret.r.passes]

\* A sweep that lowered the output twice before the fee was covered.
C23_Witness ==
    /\ SweepReturned
    /\ ret.r.created
    /\ Len(ret.r.values) >= 3
    /\ ret.r.err = ""
    /\ ret.r.passes = Len(ret.r.values)

\* C24: every transaction sweepprivkeys submits has exactly one output, pays a fee
\* (the value of all its inputs minus that output) of at least the fee the wallet
\* requires for the measured size of that same signed transaction, and carries on every
\* input a signature made over its final output.
C24_SweepPaysRequiredFee ==
    [][(ret'.op = "sweepprivkeys" /\ ret'.r.submitted) =>
          LET tx == ret'.r.tx
          IN  /\ Len(tx.vout) = 1
              /\ Len(tx.vin) = Len(FoundCoins(ret'.keys))
              /\ ret'.r.nTotalIn = MatchedValue(ret'.keys)
              /\ ret'.r.nBytes \in SignedSizes(tx)
              /\ ret'.r.nTotalIn - tx.vout[1].nValue
                     >= GetMinimumFee(ret'.r.nBytes, ret'.est)
              /\ \A i \in 1..Len(tx.vin) : tx.vin[i].scriptSig = <<tx.vout>>]_vars

\* A sweep of two inputs accepted after its output was lowered to pay the fee.
C24_Witness ==
    /\ SweepReturned
    /\ ret.r.accepted
    /\ Len(ret.r.tx.vin) = 2
    /\ ret.r.passes >= 2
    /\ ret.r.nTotalIn - ret.r.tx.vout[1].nValue = ret.r.nFeeNeeded
    /\ ret.r.nFeeNeeded > 0

\* The address-book entries of the key with the given index.
EntriesOf(book, key) == {e \in book : e.key = key}

\* C25: sweepprivkeys keeps the key it reserved, and records it under the label, exactly
\* when the transaction is accepted.  When the pool rejects the transaction, and on every
\* earlier failure (nothing to sweep, dust, signing failure), the key is back in the key
\* pool, the address book is as before with no entry for the key, and the call reports
\* an error: the pool's reason in the case of a rejection.
C25_KeyKeptIffAccepted ==
    [][ret'.op = "sweepprivkeys" =>
          IF ret'.r.accepted
          THEN /\ ret'.r.err = ""
               /\ ret'.r.reserved
               /\ keyPool' = keyPool - 1
               /\ mapAddressBook' =
                      mapAddressBook \cup {[key |-> keyPool, label |-> ret'.strLabel]}
          ELSE /\ ret'.r.err # ""
               /\ ret'.r.submitted => ret'.r.err = "rejected"
               /\ keyPool' = keyPool
               /\ mapAddressBook' = mapAddressBook
               /\ EntriesOf(mapAddressBook', keyPool) = {}
               /\ mempoolTx' = mempoolTx]_vars

\* A sweep the pool rejected, after an earlier sweep was accepted and labelled.
C25_Witness ==
    /\ SweepReturned
    /\ ret.r.submitted
    /\ ret.r.err = "rejected"
    /\ ret.r.reserved
    /\ Cardinality(mapAddressBook) = 1
    /\ EntriesOf(mapAddressBook, keyPool) = {}

\* C26: sweepprivkeys never adds the keys it is given to the wallet's key store: the
\* store is after the call what it was before, the keys are held in the scratch key
\* store of the call, and every input that is signed is signed with a key of that
\* scratch store.
C26_KeysStayOutOfWallet ==
    [][ret'.op = "sweepprivkeys" =>
          /\ mapKeys' = mapKeys
          /\ ret'.r.tempKeystore = ret'.keys
          /\ ret'.r.passes > 0 =>
                \A i \in 1..Len(ret'.r.tx.vin) :
                   \E k \in ret'.r.tempKeystore :
                      \E coin \in UnspentOf(k) :
                         ret'.r.tx.vin[i].prevout = [hash |-> coin.hash, n |-> coin.n]]_vars

\* An accepted sweep with two keys the wallet does not hold.
C26_Witness ==
    /\ SweepReturned
    /\ ret.r.accepted
    /\ Cardinality(ret.keys) = 2
    /\ ret.keys \cap mapKeys = {}
    /\ ret.r.tempKeystore = ret.keys

(***************************************************************************)
(* Properties of fundrawtransaction.                                       *)
(***************************************************************************)
FundSucceeded == ret.op = "fundrawtransaction" /\ ret.r.err = ""

\* C10: in every successful fundrawtransaction the caller's inputs are the first inputs
\* of the result, unchanged and in order, every further input is a new unsigned one,
\* and the outputs are the caller's, unchanged and in order, with at most one change
\* output inserted, at the position the result reports.
C10_FundingKeepsCallerTx ==
    FundSucceeded =>
        LET origTx == ret.hexstring.tx
            tx == ret.r.hex
        IN  /\ Len(tx.vin) >= Len(origTx.vin)
            /\ SubSeq(tx.vin, 1, Len(origTx.vin)) = origTx.vin
            /\ \A i \in (Len(origTx.vin) + 1)..Len(tx.vin) :
                  /\ tx.vin[i].scriptSig = <<>>
                  /\ \A j \in 1..Len(tx.vin) : j # i => tx.vin[j].prevout # tx.vin[i].prevout
            /\ IF ret.r.changepos = -1
               THEN tx.vout = origTx.vout
               ELSE /\ ret.r.changepos \in 0..Len(origTx.vout)
                    /\ Len(tx.vout) = Len(origTx.vout) + 1
                    /\ RemoveAt(tx.vout, ret.r.changepos + 1) = origTx.vout
                    /\ IsChange(tx.vout[ret.r.changepos + 1])

C10_Witness ==
    /\ FundSucceeded
    /\ Len(ret.hexstring.tx.vin) > 0
    /\ Len(ret.hexstring.tx.vout) > 1
    /\ Len(ret.r.hex.vin) > Len(ret.hexstring.tx.vin)
    /\ ret.r.changepos = 1

\* C11: when the selection inside fundrawtransaction fails, the call fails with exactly
\* the reason the selector answered, returns no funded transaction, and changes neither
\* the lock set nor the wallet; the caller's transaction is as it was handed in.
C11_SelectionFailureVerbatim ==
    [][(ret'.op = "fundrawtransaction" /\ ret'.r.selector # "")
          => /\ ret'.r.err = ret'.r.selector
             /\ ret'.r.hex = NoTx
             /\ ret'.r.added = {}
             /\ setLockedCoins' = setLockedCoins
             /\ mapWallet' = mapWallet
             /\ mempoolTx' = mempoolTx]_vars

C11_Witness ==
    /\ ret.op = "fundrawtransaction"
    /\ ret.r.selector = "Transaction amounts must be positive"
    /\ ret.r.err = ret.r.selector
    /\ ret.hexstring.decodes
    /\ setLockedCoins # {}

\* The last call was a fundrawtransaction whose hex string decoded.
FundDecoded == ret.op = "fundrawtransaction" /\ ret.hexstring.decodes

\* FundTransaction was called: it funded the transaction or answered a failure reason.
FundInvoked == ret.r.err = "" \/ ret.r.selector # ""

\* C27: fundrawtransaction with a change position below -1 or above the number of the
\* caller's outputs fails with 'changePosition out of bounds' before coin selection is
\* invoked; coin selection is invoked only for a transaction with at least one output
\* and a change position that is -1 (not pinned) or from 0 to the number of outputs,
\* the latter placing the change after the caller's outputs.
C27_ChangePositionBounds ==
    FundDecoded =>
        LET n == Len(ret.hexstring.tx.vout)
        IN  /\ (n >= 1 /\ ret.changePosition \notin -1..n) =>
                  /\ ret.r.err = "changePosition out of bounds"
                  /\ ~FundInvoked
                  /\ ret.r.added = {}
            /\ n = 0 => (ret.r.err = "TX must have at least one output" /\ ~FundInvoked)
            /\ FundInvoked => (n >= 1 /\ ret.changePosition \in -1..n)
            /\ (n >= 1 /\ ret.changePosition \in -1..n) => FundInvoked

\* C27 as stated: a pinned position that is not the index of one of the caller's
\* outputs is rejected before coin selection.
C27_PinnedOutsideOutputsRejected ==
    FundDecoded =>
        LET n == Len(ret.hexstring.tx.vout)
        IN  (n >= 1 /\ ret.changePosition # -1
                    /\ (ret.changePosition < 0 \/ ret.changePosition >= n)) =>
                /\ ret.r.err = "changePosition out of bounds"
                /\ ~FundInvoked

\* A funded transaction whose change was pinned right after the caller's only output.
C27_Witness ==
    /\ FundDecoded
    /\ ret.r.err = ""
    /\ ret.changePosition = Len(ret.hexstring.tx.vout)
    /\ ret.r.changepos = ret.changePosition
    /\ Len(ret.r.hex.vout) = Len(ret.hexstring.tx.vout) + 1

(***************************************************************************)
(* Properties of the lock set.                                             *)
(***************************************************************************)
EntryOutpoints(outputs) == {COutPoint(outputs[i].txid, outputs[i].vout) : i \in 1..Len(outputs)}

EntriesValid(outputs) ==
    \A i \in 1..Len(outputs) :
       outputs[i].isObject /\ outputs[i].isHex /\ outputs[i].vout >= 0

\* C12: a lockunspent call with well-formed entries succeeds and leaves the set with the
\* named outpoints added (lock) or removed (unlock), however often an outpoint is named;
\* when the outpoints were all locked already (lock) or all unlocked (unlock) the set,
\* and what listlockunspent reports of it, is as it was.
C12_LockUnlockIdempotent ==
    [][(ret'.op = "lockunspent" /\ ret'.hasOutputs /\ EntriesValid(ret'.outputs))
          => LET named == EntryOutpoints(ret'.outputs)
             IN  /\ ret'.err = ""
                 /\ setLockedCoins' = IF ret'.fUnlock THEN setLockedCoins \ named
                                      ELSE setLockedCoins \cup named
                 /\ (~ret'.fUnlock /\ named \subseteq setLockedCoins)
                       => ListLockedCoins(setLockedCoins') = ListLockedCoins(setLockedCoins)
                 /\ (ret'.fUnlock /\ named \cap setLockedCoins = {})
                       => ListLockedCoins(setLockedCoins') = ListLockedCoins(setLockedCoins)]_vars

C12_Witness ==
    /\ ret.op = "lockunspent"
    /\ ~ret.fUnlock
    /\ Len(ret.outputs) = 2
    /\ ret.outputs[1] = ret.outputs[2]
    /\ ret.err = ""
    /\ Cardinality(setLockedCoins) = 2

InputsOf(tx) == {tx.vin[i].prevout : i \in 1..Len(tx.vin)}

Locks == {"cs_main", "cs_wallet", "mempool.cs"}

Acquire(l, line) ==
    [kind |-> "lock", locks |-> {l}, line |-> line, reads |-> FALSE, throws |-> FALSE]

ScopeExit(ls, line) ==
    [kind |-> "unlock", locks |-> ls, line |-> line, reads |-> FALSE, throws |-> FALSE]

Work(line, reads, throws) ==
    [kind |-> "step", locks |-> {}, line |-> line, reads |-> reads, throws |-> throws]

LOCK2(order, line) == <<Acquire(order[1], line), Acquire(order[2], line)>>

TopUpLockOrder_walletFirst == <<"cs_wallet", "cs_main">>

\* LOCK2(cs_main, pwallet->cs_wallet) around TopUpKeyPool
TopUpLockOrder == <<"cs_main", "cs_wallet">>

sweepprivkeys_program ==
    LOCK2(TopUpLockOrder, 1081)
    \o <<Work(1083, TRUE, FALSE),                  \* IsLocked, TopUpKeyPool
         ScopeExit({"cs_main", "cs_wallet"}, 1086),
         Work(1089, TRUE, TRUE),                   \* GetReservedKey
         Acquire("cs_main", 1101),
         Work(1102, TRUE, FALSE),                  \* FindScriptPubKey, FlushStateToDisk
         ScopeExit({"cs_main"}, 1105),
         Work(1108, FALSE, TRUE),                  \* inputs, fee, signatures
         Work(1153, TRUE, TRUE),                   \* SetAddressBook, AcceptToMemoryPool
         Work(1164, TRUE, FALSE)>>                 \* KeepKey

bumpfee_program ==
    LOCK2(<<"cs_main", "cs_wallet">>, 2946)
    \o <<Work(2947, TRUE, TRUE),                   \* mapWallet ... HasWalletSpend
         Acquire("mempool.cs", 3030),
         Work(3031, TRUE, TRUE),                   \* GetCountWithDescendants
         ScopeExit({"mempool.cs"}, 3034),
         Work(3036, TRUE, TRUE),                   \* fee, sign, commit
         Work(3118, TRUE, TRUE),                   \* mark replaced
         ScopeExit({"cs_main", "cs_wallet"}, 3126)>>

\* The RPC takes no lock itself; CWallet::FundTransaction works under both.
fundrawtransaction_program ==
    <<Work(2877, FALSE, TRUE)>>                    \* options, DecodeHexTx, bounds
    \o LOCK2(<<"cs_main", "cs_wallet">>, 2891)
    \o <<Work(2891, TRUE, TRUE),                   \* FundTransaction
         ScopeExit({"cs_main", "cs_wallet"}, 2900)>>

lockunspent_program ==
    LOCK2(<<"cs_main", "cs_wallet">>, 2412)
    \o <<Work(2414, TRUE, TRUE),
         ScopeExit({"cs_main", "cs_wallet"}, 2456)>>

listlockunspent_program ==
    LOCK2(<<"cs_main", "cs_wallet">>, 2492)
    \o <<Work(2494, TRUE, FALSE),
         ScopeExit({"cs_main", "cs_wallet"}, 2507)>>

RPCs == {"bumpfee", "sweepprivkeys", "fundrawtransaction", "lockunspent", "listlockunspent"}

Program(op) ==
    CASE op = "bumpfee" -> bumpfee_program
      [] op = "sweepprivkeys" -> sweepprivkeys_program
      [] op = "fundrawtransaction" -> fundrawtransaction_program
      [] op = "lockunspent" -> lockunspent_program
      [] op = "listlockunspent" -> listlockunspent_program

InCall(t) == pc[t].op # "idle"

Instr(t) == Program(pc[t].op)[pc[t].i]

Owner(l) ==
    CASE l = "cs_main" -> cs_main
      [] l = "cs_wallet" -> cs_wallet
      [] l = "mempool.cs" -> mempool_cs

Held(t) == {l \in Locks : Owner(l) = t}

\* The locks after thread t took (owner = t) or left (owner = 0) the locks ls.
SetOwner(ls, owner) ==
    /\ cs_main' = IF "cs_main" \in ls THEN owner ELSE cs_main
    /\ cs_wallet' = IF "cs_wallet" \in ls THEN owner ELSE cs_wallet
    /\ mempool_cs' = IF "mempool.cs" \in ls THEN owner ELSE mempool_cs

\* The position after the current instruction; the call returns after its last one.
Advance(t) ==
    pc' = [pc EXCEPT ![t] = IF pc[t].i = Len(Program(pc[t].op))
                            THEN Idle ELSE [pc[t] EXCEPT !.i = @ + 1]]

\* An RPC thread takes a call from the queue.
Call(t) ==
    /\ ~InCall(t)
    /\ \E op \in RPCs : pc' = [pc EXCEPT ![t] = [op |-> op, i |-> 1]]
    /\ UNCHANGED <<cs_main, cs_wallet, mempool_cs, walletVars>>

\* CCriticalBlock::Enter: blocks until the lock is free.
EnterCritical(t) ==
    /\ InCall(t)
    /\ Instr(t).kind = "lock"
    /\ \A l \in Instr(t).locks : Owner(l) \in {0, t}
    /\ SetOwner(Instr(t).locks, t)
    /\ Advance(t)
    /\ UNCHANGED walletVars

\* The end of a lock's scope.
LeaveCritical(t) ==
    /\ InCall(t)
    /\ Instr(t).kind = "unlock"
    /\ SetOwner(Instr(t).locks, 0)
    /\ Advance(t)
    /\ UNCHANGED walletVars

Execute(t) ==
    /\ InCall(t)
    /\ Instr(t).kind = "step"
    /\ Advance(t)
    /\ UNCHANGED <<cs_main, cs_wallet, mempool_cs, walletVars>>

\* throw JSONRPCError: the stack unwinds and every lock of the call is released.
Throw(t) ==
    /\ InCall(t)
    /\ Instr(t).kind = "step"
    /\ Instr(t).throws
    /\ SetOwner(Held(t), 0)
    /\ pc' = [pc EXCEPT ![t] = Idle]
    /\ UNCHANGED walletVars

NextThreads ==
    \/ \E t \in Threads : Call(t)
    \/ \E t \in Threads : EnterCritical(t)
    \/ \E t \in Threads : LeaveCritical(t)
    \/ \E t \in Threads : Execute(t)
    \/ \E t \in Threads : Throw(t)

SpecThreads == Init /\ [][NextThreads]_vars

FirstRead(op) ==
    CHOOSE i \in 1..Len(Program(op)) :
        /\ Program(op)[i].reads
        /\ \A j \in 1..(i - 1) : ~Program(op)[j].reads

\* Thread t is in a bumpfee, sweepprivkeys or fundrawtransaction call, at or after
\* its first read of wallet or chain state and before its return.
Executing(t) ==
    /\ pc[t].op \in {"bumpfee", "sweepprivkeys", "fundrawtransaction"}
    /\ pc[t].i >= FirstRead(pc[t].op)

\* C14: at most one bumpfee, sweepprivkeys or fundrawtransaction call executes at a
\* time, and each holds the chain-state lock and the wallet lock from its first read
\* of wallet or chain state until it returns.
C14_OneAtATime ==
    /\ Cardinality({t \in Threads : Executing(t)}) <= 1
    /\ \A t \in Threads : Executing(t) => (cs_main = t /\ cs_wallet = t)

\* The thread that thread t waits for, 0 when t is not blocked.
WaitsFor(t) ==
    IF InCall(t) /\ Instr(t).kind = "lock"
    THEN LET l == CHOOSE l \in Instr(t).locks : TRUE
         IN  IF Owner(l) = t THEN 0 ELSE Owner(l)
    ELSE 0

Deadlocked(D) == D # {} /\ \A t \in D : WaitsFor(t) \in D

\* C15: a thread that requests the chain-state lock does not hold the wallet lock,
\* a thread that holds the wallet lock took the chain-state lock before it, and no
\* set of threads in bumpfee, sweepprivkeys, fundrawtransaction, lockunspent or
\* listlockunspent calls wait for each other.
C15_LockOrder ==
    /\ \A t \in Threads :
          (InCall(t) /\ Instr(t).kind = "lock" /\ "cs_main" \in Instr(t).locks)
             => cs_wallet # t
    /\ \A t \in Threads : cs_wallet = t => cs_main = t
    /\ \A D \in SUBSET Threads : ~Deadlocked(D)

C15_Witness ==
    \E t, u \in Threads :
        /\ pc[t].op = "bumpfee"
        /\ Held(t) = Locks
        /\ pc[u].op = "sweepprivkeys"
        /\ Instr(u).line = 1101
        /\ WaitsFor(u) = t

(***************************************************************************)
(* Wallets whose unconfirmed payment (id 3) cannot be bumped: it does not  *)
(* signal replaceability, spends an output that is not the wallet's, or    *)
(* has a child in the wallet or in the pending pool.                       *)
(***************************************************************************)
Signed(vin, vout) == [i \in 1..Len(vin) |-> [vin[i] EXCEPT !.scriptSig = <<vout>>]]

Spend(vin, vout) ==
    [vin |-> Signed(vin, vout), vout |-> vout, mapValue |-> <<>>, depth |-> 0]

PlainPayment == Payment(1, "payee", 226, 820)

FinalPayment ==
    Spend(<<TxIn(1, 0, SEQUENCE_FINAL - 1, <<>>)>>, PlainPayment.vout)

SharedPayment ==
    Spend(<<TxIn(1, 0, SEQUENCE_FINAL - 2, <<>>), TxIn(9, 0, SEQUENCE_FINAL - 2, <<>>)>>,
          PlainPayment.vout)

ChangeSpend == Spend(<<TxIn(3, 1, SEQUENCE_FINAL - 2, <<>>)>>, <<TxOut(500, "payee")>>)

PayeeSpend == Spend(<<TxIn(3, 0, SEQUENCE_FINAL - 2, <<>>)>>, <<TxOut(90000, "payee")>>)

WalletWith(wtx) == (1 :> Received(100000)) @@ (2 :> Received(60000)) @@ (3 :> wtx)

PreconditionWallets ==
    { [wallet |-> WalletWith(PlainPayment), pool |-> {TxOf(PlainPayment)}],
      [wallet |-> WalletWith(FinalPayment), pool |-> {TxOf(FinalPayment)}],
      [wallet |-> WalletWith(SharedPayment), pool |-> {TxOf(SharedPayment)}],
      [wallet |-> WalletWith(PlainPayment) @@ (4 :> ChangeSpend), pool |-> {TxOf(PlainPayment)}],
      [wallet |-> WalletWith(PlainPayment),
       pool |-> {TxOf(PlainPayment), TxOf(PayeeSpend)}] }

InitWith(Wallets) ==
    /\ \E w \in Wallets : mapWallet = w.wallet /\ mempoolTx = w.pool
    /\ setLockedCoins = {}
    /\ payTxFee = 0
    /\ minRelayTxFee \in MinRelayRates
    /\ mapAddressBook = {}
    /\ keyPool = 2
    /\ mapKeys = WalletKeys
    /\ running = TRUE
    /\ cs_main = 0
    /\ cs_wallet = 0
    /\ mempool_cs = 0
    /\ pc = [t \in Threads |-> Idle]
    /\ ret = [op |-> "init"]

InitPreconditions == InitWith(PreconditionWallets)

PreconditionBumpCalls == BumpParams({-2, 1, 2}, {-1, 500}, {-1}, {0}, {0})

NextPreconditions ==
    \/ bumpfee(1..(MaxWalletTx + 1), PreconditionBumpCalls)
    \/ BlockConnected

SpecPreconditions == InitPreconditions /\ [][NextPreconditions]_vars

SpendsOutputOf(tx, hash) == \E i \in 1..Len(tx.vin) : tx.vin[i].prevout.hash = hash

\* The transaction named by hash is not one bumpfee may replace.
CannotBeBumped(hash) ==
    \/ hash \notin DOMAIN mapWallet
    \/ /\ hash \in DOMAIN mapWallet
       /\ \/ mapWallet[hash].depth # 0
          \/ \A i \in 1..Len(mapWallet[hash].vin) :
                mapWallet[hash].vin[i].nSequence >= SEQUENCE_FINAL - 1
          \/ "replaced_by_txid" \in DOMAIN mapWallet[hash].mapValue
          \/ \E i \in 1..Len(mapWallet[hash].vin) :
                ~PrevoutIsMine(mapWallet, mapWallet[hash].vin[i].prevout)
          \/ \E h \in DOMAIN mapWallet : SpendsOutputOf(mapWallet[h], hash)
          \/ \E m \in mempoolTx : SpendsOutputOf(m, hash)

\* C16: bumpfee of a transaction that is not in the wallet, has a depth other than
\* 0, does not signal replaceability, is already marked replaced, has an input that
\* is not the wallet's, or has an output spent by a wallet or pending-pool transaction
\* fails: nothing is signed or submitted and no wallet record or pool entry changes.
C16_PreconditionsGuardBump ==
    [][(ret'.op = "bumpfee" /\ CannotBeBumped(ret'.hash))
          => /\ ret'.r.err # ""
             /\ ~ret'.r.signed
             /\ ~ret'.r.submitted
             /\ ~ret'.r.committed
             /\ ~ret'.r.marked
             /\ mapWallet' = mapWallet
             /\ mempoolTx' = mempoolTx]_vars

C16_Witness ==
    /\ ret.op = "bumpfee"
    /\ ret.hash = 3
    /\ ret.r.err = "Transaction has descendants in the mempool"
    /\ TxOf(PayeeSpend) \in mempoolTx
    /\ ~HasWalletSpend(mapWallet, 3)

(***************************************************************************)
(* Wallets whose unconfirmed payment (id 3) has one, two or no change      *)
(* outputs.                                                                *)
(***************************************************************************)
TwoChangePayment ==
    Spend(<<TxIn(1, 0, SEQUENCE_FINAL - 2, <<>>)>>,
          <<TxOut(90000, "payee"), TxOut(5000, "change"), TxOut(4700, "change")>>)

NoChangePayment ==
    Spend(<<TxIn(1, 0, SEQUENCE_FINAL - 2, <<>>)>>, <<TxOut(99700, "payee")>>)

ChangeWallets ==
    { [wallet |-> WalletWith(PlainPayment), pool |-> {TxOf(PlainPayment)}],
      [wallet |-> WalletWith(TwoChangePayment), pool |-> {TxOf(TwoChangePayment)}],
      [wallet |-> WalletWith(NoChangePayment), pool |-> {TxOf(NoChangePayment)}] }

InitChange == InitWith(ChangeWallets)

ChangeBumpCalls == BumpParams({-2, -1, 0, 1, 2, 3}, {600}, {-1}, {0}, {0})

NextChange ==
    \/ bumpfee(3..MaxWalletTx, ChangeBumpCalls)
    \/ BlockConnected

SpecChange == InitChange /\ [][NextChange]_vars

\* The call of the step gets as far as choosing the output to reduce.
ReachesOutputChoice(hash) ==
    /\ hash \in DOMAIN mapWallet
    /\ ~CannotBeBumped(hash)

ChoiceErrors ==
    { "Output out of bounds", "Selected output is not change",
      "Transaction has multiple change outputs",
      "Transaction does not have a change output" }

\* C17: when the caller names no output index, bumpfee goes on only if exactly one
\* output is wallet change and reduces that one; with no change output or several it
\* fails with the matching error.  When the caller names the index of an output,
\* that output is the one reduced if it is wallet change, whatever the other outputs
\* are, and the call fails with 'Selected output is not change' if it is not.
C17_ChangeOutputChoice ==
    [][(ret'.op = "bumpfee" /\ ReachesOutputChoice(ret'.hash))
          => LET vout == mapWallet[ret'.hash].vout
                 change == {i \in 0..(Len(vout) - 1) : vout[i + 1].scriptPubKey = "change"}
                 n == ret'.p.nOutput
                 r == ret'.r
             IN  /\ (~ret'.p.hasOutput /\ change = {})
                       => r.err = "Transaction does not have a change output"
                 /\ (~ret'.p.hasOutput /\ Cardinality(change) > 1)
                       => r.err = "Transaction has multiple change outputs"
                 /\ (~ret'.p.hasOutput /\ Cardinality(change) = 1)
                       => /\ r.err \notin ChoiceErrors
                          /\ r.err = "" => r.nOutput \in change
                 /\ (ret'.p.hasOutput /\ n \in 0..(Len(vout) - 1) /\ n \in change)
                       => /\ r.err \notin ChoiceErrors
                          /\ r.err = "" => r.nOutput = n
                 /\ (ret'.p.hasOutput /\ n \in 0..(Len(vout) - 1) /\ n \notin change)
                       => r.err = "Selected output is not change"]_vars

C17_Witness ==
    /\ ret.op = "bumpfee"
    /\ ret.hash = 3
    /\ ret.p.hasOutput
    /\ ret.p.nOutput = 2
    /\ ret.r.err = ""
    /\ ret.r.nOutput = 2
    /\ Len(mapWallet[3].vout) = 3
    /\ mapWallet[3].vout[2].scriptPubKey = "change"

\* C18: a bumpfee call that names an output index n with n < 0 or n >= the number of
\* outputs fails with 'Output out of bounds', having read no output and changed no
\* record or pool entry.
C18_OutOfBoundsRejected ==
    [][(/\ ret'.op = "bumpfee"
        /\ ReachesOutputChoice(ret'.hash)
        /\ ret'.p.hasOutput
        /\ (ret'.p.nOutput < 0 \/ ret'.p.nOutput >= Len(mapWallet[ret'.hash].vout)))
          => /\ ret'.r.err = "Output out of bounds"
             /\ running'
             /\ mapWallet' = mapWallet
             /\ mempoolTx' = mempoolTx]_vars

\* Total fees that the change of the payments covers, and one that it does not.
CoverBumpCalls == BumpParams({-2, 1, 2}, {600, 6000}, {-1}, {0}, {0})

NextCover ==
    \/ bumpfee(3..MaxWalletTx, CoverBumpCalls)
    \/ BlockConnected

SpecCover == InitChange /\ [][NextCover]_vars

\* The output the call of the step designates: the index it names if that is a change
\* output of the transaction, the single change output if it names none, else -1.
DesignatedOutput(hash, p) ==
    LET vout == mapWallet[hash].vout
        change == {i \in 0..(Len(vout) - 1) : vout[i + 1].scriptPubKey = "change"}
    IN  IF p.hasOutput
        THEN IF p.nOutput \in change THEN p.nOutput ELSE -1
        ELSE IF Cardinality(change) = 1 THEN CHOOSE i \in change : TRUE ELSE -1

OldFee(hash) ==
    SumSeq([i \in 1..Len(mapWallet[hash].vin) |->
               PrevoutValue(mapWallet, mapWallet[hash].vin[i].prevout)])
    - SumSeq([i \in 1..Len(mapWallet[hash].vout) |-> mapWallet[hash].vout[i].nValue])

TooSmall == "Change output is too small to bump the fee"

\* C19: a bumpfee whose designated change output holds less than the fee delta fails
\* with 'Change output is too small to bump the fee' and changes no record or pool
\* entry; a call that signs or submits a replacement took a delta that the designated
\* output covers, and no output of the replacement is negative.
C19_ChangeMustCoverDelta ==
    [][ret'.op = "bumpfee"
          => LET r == ret'.r
                 q == ret'.p
             IN  /\ r.err = TooSmall
                      => /\ ~r.signed /\ ~r.submitted /\ ~r.committed /\ ~r.marked
                         /\ mapWallet' = mapWallet
                         /\ mempoolTx' = mempoolTx
                 /\ (/\ ReachesOutputChoice(ret'.hash)
                     /\ DesignatedOutput(ret'.hash, q) # -1
                     /\ q.hasTotalFee
                     /\ q.totalFee > OldFee(ret'.hash)
                     /\ mapWallet[ret'.hash].vout[DesignatedOutput(ret'.hash, q) + 1].nValue
                           < q.totalFee - OldFee(ret'.hash))
                      => /\ r.err # ""
                         /\ ~r.signed /\ ~r.submitted
                         /\ r.err \in {TooSmall,
                                       "Invalid totalFee (cannot be higher than maxTxFee)",
                                       "Invalid totalFee, must be at least oldFee + relayFee",
                                       "New fee rate is too low to get into the mempool"}
                 /\ (r.signed \/ r.submitted)
                      => /\ \A i \in 1..Len(r.tx.vout) : r.tx.vout[i].nValue >= 0
                         /\ DesignatedOutput(ret'.hash, q) # -1
                              => mapWallet[ret'.hash].vout[DesignatedOutput(ret'.hash, q) + 1].nValue
                                    >= r.nDelta]_vars

C19_Witness ==
    /\ ret.op = "bumpfee"
    /\ ret.hash = 3
    /\ ret.r.err = TooSmall
    /\ ret.p.totalFee = 6000
    /\ ~ret.p.hasOutput
    /\ mapWallet[3].vout[2].nValue = 820
    /\ DOMAIN mapWallet = {1, 2, 3}

\* Total fees around the least one that the payments of Init accept.
TotalFeeCalls == BumpParams({-2}, {2, 453, 454, 455}, {-1}, {0}, {0})

NextTotalFee ==
    \/ bumpfee(3..MaxWalletTx, TotalFeeCalls)
    \/ BlockConnected

SpecTotalFee == Init /\ [][NextTotalFee]_vars

\* Old fee rate x S' + minimum relay rate x S' for the transaction named by hash.
LeastTotalFee(hash) ==
    LET tx == TxOf(mapWallet[hash])
        nSize == GetVirtualTransactionSize(tx)
        nPadded == nSize + Len(tx.vin)
    IN  GetFee(CFeeRate(OldFee(hash), nSize), nPadded) + GetFee(minRelayTxFee, nPadded)

InvalidTotalFee == "Invalid totalFee, must be at least oldFee + relayFee"

\* The call of the step gets as far as the fee computation with a total fee.
ReachesTotalFee(hash, q) ==
    /\ ReachesOutputChoice(hash)
    /\ DesignatedOutput(hash, q) # -1
    /\ ~q.hasConfTarget
    /\ q.hasTotalFee
    /\ q.totalFee > 0
    /\ q.totalFee <= maxTxFee

\* C20: bumpfee rejects a total fee with 'Invalid totalFee, must be at least oldFee +
\* relayFee' exactly when it is below old fee rate x S' + minimum relay rate x S'; a
\* total fee equal to that amount or above it passes, and is the new fee unchanged
\* (old fee + delta) before any dust is folded into it.
C20_TotalFeeAtLeastMinimum ==
    [][(ret'.op = "bumpfee" /\ ReachesTotalFee(ret'.hash, ret'.p))
          => LET r == ret'.r
                 totalFee == ret'.p.totalFee
             IN  /\ r.err = InvalidTotalFee <=> totalFee < LeastTotalFee(ret'.hash)
                 /\ (totalFee >= LeastTotalFee(ret'.hash) /\ (r.err = "" \/ r.crash))
                       => r.nOldFee + r.nDelta = totalFee]_vars

\* C20 as stated: a total fee is accepted only if strictly greater than old fee rate x
\* S' + minimum relay rate x S'; one equal to it or below it makes the call fail.
C20_TotalFeeMustExceedMinimum ==
    [][(/\ ret'.op = "bumpfee"
        /\ ReachesTotalFee(ret'.hash, ret'.p)
        /\ ret'.p.totalFee <= LeastTotalFee(ret'.hash))
          => ret'.r.err # ""]_vars

C20_Witness ==
    /\ ret.op = "bumpfee"
    /\ ret.hash = 3
    /\ ret.p.totalFee = 454
    /\ minRelayTxFee = 1000
    /\ ret.r.err = ""
    /\ ret.r.nOldFee = 226
    /\ ret.r.nDelta = 228
    /\ ret.r.maxNewTxSize = 227
    /\ ~ret.r.discarded

\* Calls that meet a pending pool whose minimum admission rate is 0 or 2005.
MempoolMinCalls == BumpParams({-2}, {-1, 454, 460}, {-1}, {0}, {0, 2005, 30000})

NextMempoolMin ==
    \/ bumpfee(3..MaxWalletTx, MempoolMinCalls)
    \/ BlockConnected

SpecMempoolMin == Init /\ [][NextMempoolMin]_vars

\* C21: a bumpfee whose new fee rate is below the pending pool's minimum admission
\* rate fails with nothing signed or submitted and no record changed, and the fee
\* that a submitted replacement pays, taken over the padded size S', is a rate of at
\* least that minimum.
C21_AboveMempoolMinimum ==
    [][ret'.op = "bumpfee"
          => /\ ret'.r.err = "New fee rate is too low to get into the mempool"
                  => /\ ~ret'.r.signed /\ ~ret'.r.submitted
                     /\ mapWallet' = mapWallet
                     /\ mempoolTx' = mempoolTx
             /\ (ret'.r.submitted /\ ret'.r.err = "")
                  => /\ ret'.r.nNewFeeRate >= ret'.p.minMempoolFee
                     /\ (ret'.r.nNewFee * 1000) \div ret'.r.maxNewTxSize
                           >= ret'.p.minMempoolFee]_vars

(***************************************************************************)
(* bumpfee calls of concurrent RPC threads, statement by statement: the    *)
(* thread keeps the call's transaction id and parameters, and from the     *)
(* commit on its result, in its position.                                  *)
(***************************************************************************)
ThreadFates ==
    { [signOk |-> TRUE, commitOk |-> TRUE, markOk |-> TRUE],
      [signOk |-> TRUE, commitOk |-> TRUE, markOk |-> FALSE] }

\* The wallet's records that replace another one.
Replacements == {b \in DOMAIN mapWallet : "replaces_txid" \in DOMAIN mapWallet[b].mapValue}

ThreadBumpCalls == BumpParams({-2}, {500, 600}, {-1}, {0}, {0})

InBump(t, line) ==
    /\ running
    /\ pc[t].op = "bumpfee"
    /\ Instr(t).kind = "step"
    /\ Instr(t).line = line

\* The call ends with a throw or a return: its locks are released.
Unwind(t) ==
    /\ SetOwner(Held(t), 0)
    /\ pc' = [pc EXCEPT ![t] = Idle]

BumpCall(t, Hashes, Params) ==
    /\ running
    /\ ~InCall(t)
    /\ \E hash \in Hashes, q \in Params, fate \in ThreadFates :
          pc' = [pc EXCEPT ![t] = [op |-> "bumpfee", i |-> 1, hash |-> hash,
                                   p |-> CallOf(q, NoUB, fate), r |-> NoBump]]
    /\ UNCHANGED <<cs_main, cs_wallet, mempool_cs, walletVars>>

\* lines 2947-2963
BumpCheck(t) ==
    /\ InBump(t, 2947)
    /\ IF bumpfee_precheck(pc[t].hash) # ""
       THEN Unwind(t)
       ELSE Advance(t) /\ UNCHANGED <<cs_main, cs_wallet, mempool_cs>>
    /\ UNCHANGED walletVars

\* lines 3031-3033
BumpDescendants(t) ==
    /\ InBump(t, 3031)
    /\ IF MempoolHasDescendants(mempoolTx, mapWallet, pc[t].hash)
       THEN Unwind(t)
       ELSE Advance(t) /\ UNCHANGED <<cs_main, cs_wallet, mempool_cs>>
    /\ UNCHANGED walletVars

\* lines 2965-3115: the output, the options, the fee, the signatures, the commit
BumpCommit(t) ==
    /\ InBump(t, 3036)
    /\ LET hash == pc[t].hash
           r == bumpfee_output(hash, pc[t].p, NoBump)
       IN  /\ r.committed => Cardinality(Replacements) < MaxReplacements
           /\ mapWallet' = WalletAfterBump(hash, [r EXCEPT !.marked = FALSE])
           /\ mempoolTx' = IF r.committed THEN PoolAfterAccept(mempoolTx, r.tx)
                           ELSE mempoolTx
           /\ running' = ~r.crash
           /\ IF r.committed
              THEN /\ pc' = [pc EXCEPT ![t] = [pc[t] EXCEPT !.i = @ + 1, !.r = r]]
                   /\ UNCHANGED <<cs_main, cs_wallet, mempool_cs>>
              ELSE Unwind(t)
    /\ UNCHANGED <<setLockedCoins, payTxFee, minRelayTxFee, mapAddressBook, keyPool, mapKeys, ret>>

\* lines 3118-3119
BumpMark(t) ==
    /\ InBump(t, 3118)
    /\ IF pc[t].r.marked
       THEN /\ mapWallet' = MarkReplaced(mapWallet, pc[t].hash, pc[t].r.txid)
            /\ Advance(t)
            /\ UNCHANGED <<cs_main, cs_wallet, mempool_cs>>
       ELSE /\ mapWallet' = mapWallet
            /\ Unwind(t)
    /\ UNCHANGED <<mempoolTx, setLockedCoins, payTxFee, minRelayTxFee, mapAddressBook,
                   keyPool, mapKeys, running, ret>>

NextBumpThreads ==
    \/ \E t \in Threads : BumpCall(t, {3}, ThreadBumpCalls)
    \/ \E t \in Threads : EnterCritical(t)
    \/ \E t \in Threads : LeaveCritical(t)
    \/ \E t \in Threads : BumpCheck(t)
    \/ \E t \in Threads : BumpDescendants(t)
    \/ \E t \in Threads : BumpCommit(t)
    \/ \E t \in Threads : BumpMark(t)

SpecBumpThreads == Init /\ [][NextBumpThreads]_vars

ReplacementsOf(hash) ==
    { b \in DOMAIN mapWallet :
         /\ "replaces_txid" \in DOMAIN mapWallet[b].mapValue
         /\ mapWallet[b].mapValue["replaces_txid"] = hash }

\* C22: whatever the interleaving of concurrent bumpfee calls on a transaction, the
\* wallet never holds two committed replacements of it (no fork), and no record
\* replaces itself or a record that replaces it (no cycle).
C22_SingleReplacement ==
    \A hash \in DOMAIN mapWallet :
        /\ Cardinality(ReplacementsOf(hash)) <= 1
        /\ hash \notin ReplacementsOf(hash)
        /\ \A b \in ReplacementsOf(hash) : hash \notin ReplacementsOf(b)

\* The fee a transaction pays: the value of its inputs less the value of its outputs.
FeePaid(tx) ==
    SumSeq([i \in 1..Len(tx.vin) |-> PrevoutValue(mapWallet, tx.vin[i].prevout)])
    - SumSeq([i \in 1..Len(tx.vout) |-> tx.vout[i].nValue])

\* C28: for every successful bumpfee the 'fee' of the result is the fee the replacement
\* pays, its inputs less its outputs, whether the change output was kept or dropped, and
\* 'oldfee' is the original's inputs less its outputs.
C28_ReturnedFeesArePaid ==
    [][(ret'.op = "bumpfee" /\ ret'.r.err = "") =>
          /\ ret'.r.nNewFee = FeePaid(ret'.r.tx)
          /\ ret'.r.nOldFee = FeePaid(TxOf(mapWallet[ret'.hash]))]_vars

\* The same for the calls that name no output or an output of the original.
C28_ReturnedFeesArePaidInBounds ==
    [][(ret'.op = "bumpfee" /\ ret'.r.err = "" /\ ~ReadsPastEnd(ret'.hash, ret'.p)) =>
          /\ ret'.r.nNewFee = FeePaid(ret'.r.tx)
          /\ ret'.r.nOldFee = FeePaid(TxOf(mapWallet[ret'.hash]))]_vars

(***************************************************************************)
(* bumpfee with a total fee at the wallet's fee ceiling.                   *)
(***************************************************************************)
\* A payment whose change is a little more than the fee ceiling.
CapPayment == Payment(1, "payee", 226, 50300)

MaxFeeWallets ==
    { [wallet |-> WalletWith(CapPayment), pool |-> {TxOf(CapPayment)}],
      [wallet |-> WalletWith(PlainPayment), pool |-> {TxOf(PlainPayment)}] }

InitMaxFee == InitWith(MaxFeeWallets)

MaxFeeCalls == BumpParams({-2, 1}, {500, 49000, 50000, 50001}, {-1}, {0}, {0})

NextMaxFee ==
    \/ bumpfee(3..MaxWalletTx, MaxFeeCalls)
    \/ BlockConnected

SpecMaxFee == InitMaxFee /\ [][NextMaxFee]_vars

\* C29: when the caller gives a total fee, the fee the replacement of a successful bumpfee
\* pays never exceeds maxTxFee, also when the change output is dropped and its remainder is added to the fee.
C29_FeeWithinMaxTxFee ==
    [][(ret'.op = "bumpfee" /\ ret'.p.hasTotalFee /\ ret'.r.err = "") =>
          /\ FeePaid(ret'.r.tx) <= maxTxFee
          /\ ret'.r.nNewFee <= maxTxFee]_vars

\* The same for the replacements that keep their change output, the output being one
\* of the original's.
C29_FeeWithinMaxTxFeeKept ==
    [][(/\ ret'.op = "bumpfee" /\ ret'.p.hasTotalFee /\ ret'.r.err = ""
        /\ ~ret'.r.discarded /\ ~ReadsPastEnd(ret'.hash, ret'.p)) =>
          /\ FeePaid(ret'.r.tx) <= maxTxFee
          /\ ret'.r.nNewFee <= maxTxFee]_vars

(***************************************************************************)
(* lockunspent on lists with entries that fail their checks.               *)
(***************************************************************************)
ListEntries ==
    {LockEntry(TRUE, 2, 0), LockEntry(TRUE, 3, 1), LockEntry(TRUE, 3, -1),
     LockEntry(FALSE, 0, 0), NotAnObject}

NextLockList ==
    \/ lockunspent(ListEntries)
    \/ listlockunspent

SpecLockList == Init /\ [][NextLockList]_vars

\* C30: lockunspent on a list is all-or-nothing: when an entry of the list is invalid (not
\* an object, a txid that is not hex, a negative vout), at whatever position, the call
\* fails and the lock set is what it was before the call.
C30_LockListAllOrNothing ==
    [][(ret'.op = "lockunspent" /\ ret'.hasOutputs /\ ~EntriesValid(ret'.outputs)) =>
          /\ ret'.err # ""
          /\ setLockedCoins' = setLockedCoins]_vars

\* What holds: the call fails, and the entries before the first invalid one are applied.
C30_LockListAppliedUpToInvalid ==
    [][(ret'.op = "lockunspent" /\ ret'.hasOutputs /\ ~EntriesValid(ret'.outputs)) =>
          LET outputs == ret'.outputs
              bad == CHOOSE i \in 1..Len(outputs) :
                        /\ ~EntriesValid(<<outputs[i]>>)
                        /\ EntriesValid(SubSeq(outputs, 1, i - 1))
              before == {COutPoint(outputs[j].txid, outputs[j].vout) : j \in 1..(bad - 1)}
          IN  /\ ret'.err # ""
              /\ setLockedCoins' = IF ret'.fUnlock THEN setLockedCoins \ before
                                   ELSE setLockedCoins \cup before]_vars

====
